---- MODULE Spec2Model ----
(***************************************************************************)
(* A model of the job tracker (backend/job_tracker.py), of the atomic      *)
(* cache store (backend/utils/cache.py), of the fetch functions of the     *)
(* gateways and of their cache keys, of akmolamap.                         *)
(*                                                                         *)
(* Optional values (Python None / a value) are sequences: <<>> is None and *)
(* <<v>> is the value v.  Timestamps are integers read from the clock      *)
(* `now`; datetime.isoformat() strings of one UTC offset compare as the    *)
(* instants they denote, so the string comparisons of the code are integer *)
(* comparisons here.                                                       *)
(***************************************************************************)
EXTENDS Integers, Sequences, FiniteSets, TLC

VARIABLES
    jobs,             \* JobTracker._jobs: job_id -> JobProgress
    jobOrder,         \* key order of the dict JobTracker._jobs (insertion order)
    completed_count,  \* JobTracker._completed_count
    failed_count,     \* JobTracker._failed_count
    now,              \* the clock read by datetime.now(timezone.utc)
    calls,            \* history: number of JobTracker calls made so far
    nCreated,         \* history: number of jobs created so far, saturating at MaxHistory + 1
    evictedMax,       \* history: the latest completed_at among the jobs deleted so far
    mutex,            \* JobTracker._lock: "free" or the thread that holds it
    pc,               \* thread -> index of its next step in its program
    acc,              \* reading thread -> the field values its to_dict() has read so far
    seen,             \* reading thread -> the last dictionary its to_dict() returned
    committed,        \* history: the records the job had whenever the lock was released
    cache_path,       \* the file at cache_path: None, or its content
    lock_path,        \* the directory entry lock_path: 0, or the inode it names
    fd,               \* process -> the inode its lock_file is open on, or 0
    locked,           \* process -> it holds the flock of the inode fd[process]
    tmp,              \* process -> the content of its temporary file, or None
    rfd,              \* process -> the content of the file it has open for reading, or None
    cpc,              \* process -> its position in atomic_write_cache / safe_cache_read
    call,             \* process -> the call it is in: its kind and use_lock
    got,              \* history: process -> the last value safe_cache_read returned to it
    orphan,           \* history: the content of the temporary file the last killed writer left
    waited,           \* process -> time.time() - start_time in file_lock, in sleeps of 0.1 s
    disk,             \* cache file of a function -> None, or its content
    req,              \* process -> the fetch it serves (or served last)
    fpc,              \* process -> its position in the fetch
    http,             \* process -> attempt of the retry loop; history: last answer, refreshes on 401
    outcome,          \* history: process -> how its last fetch ended
    wrote,            \* process -> chunks it has written to the file it has open for writing
    aged,             \* the cache files whose age (now - st_mtime) is over the TTL of their kind
    args,             \* side -> the arguments of a request
    key,              \* side -> None, or the cache name derived from the arguments of the side
    input,            \* None, or the arguments (and the locals of a loop) of the call of a function that keeps no state
    output,           \* None, or what the call returned or raised
    entries,          \* file name of a cache directory -> None, or <<its st_mtime and st_size>>
    mon,              \* the call of the cache monitor in progress, or the last one and its result
    cache_events      \* eonet._cache_events: the key, the payload and the age of the cached events

trackerVars == <<jobs, jobOrder, completed_count, failed_count, now>>

historyVars == <<nCreated, evictedMax>>

threadVars == <<mutex, pc, acc, seen, committed>>

cacheVars == <<cache_path, lock_path, fd, locked, tmp, rfd, cpc, call, got, orphan, waited>>

fetchVars == <<disk, req, fpc, http, outcome, wrote, aged>>

keyVars == <<args, key>>

callVars == <<input, output>>

monitorVars == <<entries, mon>>

eventVars == <<cache_events>>

vars ==
    <<trackerVars, calls, historyVars, threadVars, cacheVars, fetchVars, keyVars, callVars,
      monitorVars, eventVars>>


----------------------------------------------------------------------------
(* Bounds of the model *)

MaxHistory == 1     \* JobTracker._max_history of the modelled tracker
MaxTime == 1        \* the clock runs from 0 to MaxTime
MaxSteps == 3       \* update_progress(increment_steps=True) is called while completed_steps < MaxSteps
MaxCalls == 5       \* a behaviour makes at most MaxCalls calls of JobTracker operations
MaxWindows == 3     \* aggregation windows in the answer of the Statistical API
MaxDay == 1         \* st_mtime of a cache file runs from 0 to MaxDay days
MaxCount == 2       \* complete_job / fail_job are called while their counter is < MaxCount

JobIds == {"j1", "j2", "j3"}
JobTypes == {"biopar_geotiff"}
TotalStepsIn == {<<>>, <<0>>, <<2>>}     \* create_job(total_steps=...)
PctIn == {<<>>, <<-5>>, <<50>>, <<250>>} \* update_progress(progress_pct=...)
StepIn == {<<>>, <<"s">>}                \* update_progress(current_step=...)
MessageIn == {<<>>, <<"m">>}             \* message=...
ResultIn == {<<>>, <<"r">>}              \* complete_job(result=...)
ErrorIn == {"e"}                         \* fail_job(error=...)
HoursIn == {<<>>, <<0>>, <<1>>}          \* clear_completed(older_than_hours=...), one clock unit per hour

----------------------------------------------------------------------------
(* JobStatus and JobProgress *)

PENDING == "pending"
RUNNING == "running"
COMPLETED == "completed"
FAILED == "failed"
CANCELLED == "cancelled"

JobStatus == {PENDING, RUNNING, COMPLETED, FAILED, CANCELLED}

Terminal == {COMPLETED, FAILED, CANCELLED}

None == <<>>

Min(a, b) == IF a <= b THEN a ELSE b

Max(a, b) == IF a >= b THEN a ELSE b

\* JobProgress(job_id, job_type, total_steps, metadata) with the dataclass defaults
JobProgress(job_type, total_steps, t) ==
    [ job_type |-> job_type,
      status |-> PENDING,
      progress_pct |-> 0,
      current_step |-> None,
      total_steps |-> total_steps,
      completed_steps |-> 0,
      message |-> None,
      result |-> None,
      error |-> None,
      created_at |-> t,
      started_at |-> None,
      completed_at |-> None ]

\* `if message:` keeps the old message for None
Truthy(old, new) == IF new # None THEN new ELSE old

\* a lookup that inserts a job for a missing id instead of raising
NotFoundInserts(id) ==
    /\ id \notin DOMAIN jobs
    /\ jobs' = [k \in DOMAIN jobs \cup {id} |->
                  IF k = id THEN JobProgress("biopar_geotiff", None, now) ELSE jobs[k]]
    /\ UNCHANGED <<jobOrder, completed_count, failed_count, now>>

\* the branch `raise ValueError(f"Job not found: {job_id}")` of every mutator
NotFound(id) ==
    /\ id \notin DOMAIN jobs
    /\ UNCHANGED trackerVars

----------------------------------------------------------------------------
(* _cleanup_old_jobs *)

Position(order, id) == CHOOSE i \in 1..Len(order) : order[i] = id

Remove(order, gone) == SelectSeq(order, LAMBDA id : id \notin gone)

\* a cleanup that forgets the status filter
FinishedAny(js) == DOMAIN js

\* finished_jobs: the ids whose status is completed, failed or cancelled
Finished(js) == {id \in DOMAIN js : js[id].status \in Terminal}

\* key=lambda x: x[1].completed_at or "": a missing timestamp sorts first
SortKey(job) == IF job.completed_at = None THEN -1 ELSE job.completed_at[1]

\* a cleanup that sorts finished_jobs by created_at
RankByCreation(js, order, id) ==
    Cardinality({k \in Finished(js) :
        \/ js[k].created_at < js[id].created_at
        \/ /\ js[k].created_at = js[id].created_at
           /\ Position(order, k) < Position(order, id)})

\* index of id in finished_jobs after the stable sort by SortKey
Rank(js, order, id) ==
    Cardinality({k \in Finished(js) :
        \/ SortKey(js[k]) < SortKey(js[id])
        \/ /\ SortKey(js[k]) = SortKey(js[id])
           /\ Position(order, k) < Position(order, id)})

\* the ids _cleanup_old_jobs deletes from the job map js
ToRemove(js, order) ==
    IF Cardinality(Finished(js)) > MaxHistory
    THEN {id \in Finished(js) :
            Rank(js, order, id) < Cardinality(Finished(js)) - MaxHistory}
    ELSE {}

Restrict(js, gone) == [id \in DOMAIN js \ gone |-> js[id]]

SetMax(S, d) == IF S = {} THEN d ELSE CHOOSE x \in S : \A y \in S : y <= x

\* _cleanup_old_jobs applied to the job map js
CleanupOldJobs(js) ==
    LET gone == ToRemove(js, jobOrder) IN
    /\ jobs' = Restrict(js, gone)
    /\ jobOrder' = Remove(jobOrder, gone)

----------------------------------------------------------------------------
(* The operations of JobTracker; each runs under self._lock *)

create_job(id, job_type, total_steps) ==
    /\ jobs' = [k \in DOMAIN jobs \cup {id} |->
                  IF k = id THEN JobProgress(job_type, total_steps, now) ELSE jobs[k]]
    /\ jobOrder' = IF id \in DOMAIN jobs THEN jobOrder ELSE Append(jobOrder, id)
    /\ UNCHANGED <<completed_count, failed_count, now>>

start_job(id, message) ==
    \/ NotFound(id)
    \/ /\ id \in DOMAIN jobs
       /\ jobs' = [jobs EXCEPT ![id].status = RUNNING,
                               ![id].started_at = <<now>>,
                               ![id].message = Truthy(@, message)]
       /\ UNCHANGED <<jobOrder, completed_count, failed_count, now>>

\* the new progress_pct of update_progress
NewProgress(job, progress_pct, increment_steps) ==
    LET clamped == IF progress_pct # None
                   THEN Min(100, Max(0, progress_pct[1]))
                   ELSE job.progress_pct
    IN  IF increment_steps /\ job.total_steps # None /\ job.total_steps[1] > 0
        THEN ((job.completed_steps + 1) * 100) \div job.total_steps[1]
        ELSE clamped

update_progress(id, progress_pct, current_step, message, increment_steps) ==
    \/ NotFound(id)
    \/ /\ id \in DOMAIN jobs
       /\ increment_steps => jobs[id].completed_steps < MaxSteps
       /\ jobs' = [jobs EXCEPT
                     ![id].progress_pct = NewProgress(jobs[id], progress_pct, increment_steps),
                     ![id].current_step = IF current_step # None THEN current_step ELSE @,
                     ![id].message = IF message # None THEN message ELSE @,
                     ![id].completed_steps = IF increment_steps THEN @ + 1 ELSE @]
       /\ UNCHANGED <<jobOrder, completed_count, failed_count, now>>

complete_job(id, result, message) ==
    \/ NotFound(id)
    \/ /\ id \in DOMAIN jobs
       /\ completed_count < MaxCount
       /\ CleanupOldJobs([jobs EXCEPT ![id].status = COMPLETED,
                                      ![id].progress_pct = 100,
                                      ![id].completed_at = <<now>>,
                                      ![id].result = IF result # None THEN result ELSE @,
                                      ![id].message = Truthy(@, message)])
       /\ completed_count' = completed_count + 1
       /\ UNCHANGED <<failed_count, now>>

fail_job(id, error, message) ==
    \/ NotFound(id)
    \/ /\ id \in DOMAIN jobs
       /\ failed_count < MaxCount
       /\ CleanupOldJobs([jobs EXCEPT ![id].status = FAILED,
                                      ![id].error = <<error>>,
                                      ![id].completed_at = <<now>>,
                                      ![id].message = Truthy(@, message)])
       /\ failed_count' = failed_count + 1
       /\ UNCHANGED <<completed_count, now>>

cancel_job(id, message) ==
    \/ NotFound(id)
    \/ /\ id \in DOMAIN jobs
       /\ jobs' = [jobs EXCEPT ![id].status = CANCELLED,
                               ![id].completed_at = <<now>>,
                               ![id].message = Truthy(@, message)]
       /\ UNCHANGED <<jobOrder, completed_count, failed_count, now>>

\* to_remove of clear_completed
ClearSet(older_than_hours) ==
    IF older_than_hours # None /\ older_than_hours[1] # 0
    THEN {id \in Finished(jobs) :
            /\ jobs[id].completed_at # None
            /\ jobs[id].completed_at[1] < now - older_than_hours[1]}
    ELSE Finished(jobs)

clear_completed(older_than_hours) ==
    /\ jobs' = Restrict(jobs, ClearSet(older_than_hours))
    /\ jobOrder' = Remove(jobOrder, ClearSet(older_than_hours))
    /\ UNCHANGED <<completed_count, failed_count, now>>

\* time passes between two calls
Tick ==
    /\ now < MaxTime
    /\ now' = now + 1
    /\ UNCHANGED <<jobs, jobOrder, completed_count, failed_count>>

----------------------------------------------------------------------------

\* JobTracker.__init__
TrackerInit ==
    /\ jobs = <<>>
    /\ jobOrder = <<>>
    /\ completed_count = 0
    /\ failed_count = 0
    /\ now = 0

HistoryInit ==
    /\ nCreated = 0
    /\ evictedMax = -1

\* a call of start_job, update_progress, complete_job, fail_job or cancel_job on id
MutatorCall(in, id) ==
    \/ \E m \in in.message : start_job(id, m)
    \/ \E p \in in.pct, s \in in.step, m \in in.message, inc \in in.inc :
          update_progress(id, p, s, m, inc)
    \/ \E r \in in.result, m \in in.message : complete_job(id, r, m)
    \/ \E e \in ErrorIn, m \in in.message : fail_job(id, e, m)
    \/ \E m \in in.message : cancel_job(id, m)

\* the ids a step deletes from the job map
Deleted == DOMAIN jobs \ DOMAIN jobs'

\* the history variables follow the step: a new key is a created job, and a
\* deleted job counts with the completed_at it had when it was deleted (a job
\* deleted by the call that finishes it was finished at `now`)
History ==
    /\ nCreated' = IF DOMAIN jobs' \ DOMAIN jobs # {}
                   THEN Min(nCreated + 1, MaxHistory + 1) ELSE nCreated
    /\ evictedMax' = SetMax({IF jobs[id].status \in Terminal
                             THEN SortKey(jobs[id]) ELSE now : id \in Deleted}
                            \cup {evictedMax}, evictedMax)

\* the argument sets of the specification Spec: three jobs, the arguments that
\* drive the status, the timestamps and the history eviction
LifecycleIn ==
    [ ids |-> JobIds, total |-> {None}, message |-> {None}, pct |-> {<<50>>},
      step |-> {None}, inc |-> {FALSE}, result |-> {None} ]

\* the argument sets of the specification SpecProgress: one job, every
\* combination of the arguments of create_job and update_progress
ProgressIn ==
    [ ids |-> {"j1"}, total |-> TotalStepsIn, message |-> MessageIn, pct |-> PctIn,
      step |-> StepIn, inc |-> BOOLEAN, result |-> ResultIn ]

----------------------------------------------------------------------------
(* Threads that share one JobTracker.  A thread runs a program, one line of *)
(* the source per step; the interpreter may switch threads between any two *)
(* steps.  The holder keeps the JobProgress object that create_job returned *)
(* and calls to_dict() on it; the poller calls get_job; the worker runs    *)
(* start_job and complete_job.                                             *)

TheJob == "j1"

threadVarsButPc == <<mutex, acc, seen, committed>>

Threads == {"worker", "poller", "holder"}

Readers == {"poller", "holder"}

\* the attributes JobProgress.to_dict reads that start_job and complete_job
\* assign, in the order it reads them; no thread assigns the others after
\* create_job, so reading them takes no step of its own
Fields == << "status", "progress_pct", "message", "result", "started_at", "completed_at" >>

ToDictSteps == [i \in 1..Len(Fields) |-> "to_dict"]

Program(t) ==
    CASE t = "worker" ->
           << "acquire", "lookup", "start.status", "start.started_at",
              "start.message", "release",
              "acquire", "lookup", "complete.status", "complete.progress_pct",
              "complete.completed_at", "complete.result", "complete.message",
              "complete.count", "complete.cleanup", "release" >>
      [] t = "poller" ->
           << "acquire", "get" >> \o ToDictSteps \o << "return", "release" >>
      [] t = "holder" ->
           << "acquire", "create", "release" >> \o ToDictSteps \o << "return" >>

\* where a thread continues after the last step of its program
Restart(t) ==
    CASE t = "worker" -> Len(Program(t)) + 1   \* the worker is done
      [] t = "poller" -> 1                     \* the next get_job
      [] t = "holder" -> 4                     \* the next to_dict() on the kept object

At(t, label) == pc[t] <= Len(Program(t)) /\ Program(t)[pc[t]] = label

Goto(t, i) == pc' = [pc EXCEPT ![t] = IF i > Len(Program(t)) THEN Restart(t) ELSE i]

Advance(t) == Goto(t, pc[t] + 1)

\* `with self._lock:` entered
Acquire(t) ==
    /\ At(t, "acquire")
    /\ mutex = "free"
    /\ mutex' = t
    /\ Advance(t)
    /\ UNCHANGED <<trackerVars, acc, seen, committed>>

\* `with self._lock:` left
Release(t) ==
    /\ At(t, "release")
    /\ mutex' = "free"
    /\ committed' = IF TheJob \in DOMAIN jobs
                    THEN committed \cup {jobs[TheJob]} ELSE committed
    /\ Advance(t)
    /\ UNCHANGED <<trackerVars, acc, seen>>

\* `if job_id not in self._jobs: raise ValueError`: the with statement releases the lock
Lookup(t) ==
    /\ At(t, "lookup")
    /\ IF TheJob \in DOMAIN jobs
       THEN Advance(t) /\ UNCHANGED mutex
       ELSE Goto(t, Len(Program(t)) + 1) /\ mutex' = "free"
    /\ UNCHANGED <<trackerVars, acc, seen, committed>>

\* the assignment of one line of start_job or complete_job
Assigned(label, job) ==
    CASE label = "start.status" -> [job EXCEPT !.status = RUNNING]
      [] label = "start.started_at" -> [job EXCEPT !.started_at = <<now>>]
      [] label = "start.message" -> [job EXCEPT !.message = Truthy(@, <<"m">>)]
      [] label = "complete.status" -> [job EXCEPT !.status = COMPLETED]
      [] label = "complete.progress_pct" -> [job EXCEPT !.progress_pct = 100]
      [] label = "complete.completed_at" -> [job EXCEPT !.completed_at = <<now>>]
      [] label = "complete.result" -> [job EXCEPT !.result = <<"r">>]
      [] label = "complete.message" -> [job EXCEPT !.message = Truthy(@, <<"m">>)]

Assignments ==
    { "start.status", "start.started_at", "start.message", "complete.status",
      "complete.progress_pct", "complete.completed_at", "complete.result",
      "complete.message" }

Assign(t) ==
    /\ \E label \in Assignments :
          /\ At(t, label)
          /\ jobs' = [jobs EXCEPT ![TheJob] = Assigned(label, @)]
    /\ Advance(t)
    /\ UNCHANGED <<jobOrder, completed_count, failed_count, now, mutex, acc, seen, committed>>

\* self._completed_count += 1
Count(t) ==
    /\ At(t, "complete.count")
    /\ completed_count' = completed_count + 1
    /\ Advance(t)
    /\ UNCHANGED <<jobs, jobOrder, failed_count, now, mutex, acc, seen, committed>>

\* self._cleanup_old_jobs()
Cleanup(t) ==
    /\ At(t, "complete.cleanup")
    /\ CleanupOldJobs(jobs)
    /\ Advance(t)
    /\ UNCHANGED <<completed_count, failed_count, now, mutex, acc, seen, committed>>

\* the body of create_job: the new object is inserted fully built
Create(t) ==
    /\ At(t, "create")
    /\ \E ty \in JobTypes : create_job(TheJob, ty, <<2>>)
    /\ Advance(t)
    /\ UNCHANGED threadVarsButPc

NoReading == <<>>

\* job = self._jobs.get(job_id); get_job returns None for a missing job
Get(t) ==
    /\ At(t, "get")
    /\ IF TheJob \in DOMAIN jobs
       THEN Advance(t) /\ UNCHANGED seen
       ELSE Goto(t, Len(Program(t))) /\ seen' = [seen EXCEPT ![t] = None]
    /\ UNCHANGED <<trackerVars, mutex, acc, committed>>

\* to_dict evaluates the next attribute of the job object; round(x, 1) and
\* status.value keep the values of the model as they are
ToDict(t) ==
    /\ At(t, "to_dict")
    /\ TheJob \in DOMAIN jobs
    /\ acc' = [acc EXCEPT ![t] =
                 Append(@, jobs[TheJob][Fields[Len(@) + 1]])]
    /\ Advance(t)
    /\ UNCHANGED <<trackerVars, mutex, seen, committed>>

FieldIndex(f) == CHOOSE i \in 1..Len(Fields) : Fields[i] = f

\* the dictionary to_dict returns for the object job
Dict(job, vals) ==
    [f \in DOMAIN job |->
        IF f \in {Fields[i] : i \in 1..Len(Fields)} THEN vals[FieldIndex(f)] ELSE job[f]]

Return(t) ==
    /\ At(t, "return")
    /\ seen' = [seen EXCEPT ![t] = <<Dict(jobs[TheJob], acc[t])>>]
    /\ acc' = [acc EXCEPT ![t] = NoReading]
    /\ Advance(t)
    /\ UNCHANGED <<trackerVars, mutex, committed>>

ThreadsInit ==
    /\ mutex = "free"
    /\ pc = [t \in Threads |-> 1]
    /\ acc = [t \in Readers |-> NoReading]
    /\ seen = [t \in Readers |-> None]
    /\ committed = {}

----------------------------------------------------------------------------
(* The atomic cache store (backend/utils/cache.py): processes that call    *)
(* atomic_write_cache and safe_cache_read on one cache_path, one system     *)
(* call per step.  A file content is [by |-> writer, n |-> chunks written]; *)
(* it is complete when all ContentLen chunks are there.                     *)

ContentLen == 2     \* chunks in which the bytes of one write reach the file

Timeout == 1        \* the timeout of file_lock, in sleeps of 0.1 s

Procs == {"p1", "p2"}

Inodes == 1..Cardinality(Procs)

Complete(content) == content.n = ContentLen

\* flock: the inode is locked through some open file
Flocked(inode) == \E q \in Procs : locked[q] /\ fd[q] = inode

\* an inode that no directory entry and no open file refers to
FreshInode == CHOOSE i \in Inodes : i # lock_path /\ \A q \in Procs : fd[q] # i

Idle == [kind |-> "none", use_lock |-> FALSE]

CacheInit ==
    /\ cache_path = None
    /\ lock_path = 0
    /\ fd = [p \in Procs |-> 0]
    /\ locked = [p \in Procs |-> FALSE]
    /\ tmp = [p \in Procs |-> None]
    /\ rfd = [p \in Procs |-> None]
    /\ cpc = [p \in Procs |-> "idle"]
    /\ call = [p \in Procs |-> Idle]
    /\ got = [p \in Procs |-> None]
    /\ orphan = None
    /\ waited = [p \in Procs |-> 0]

Jump(p, label) == cpc' = [cpc EXCEPT ![p] = label]

\* the first statement inside `with file_lock(lock_path):`
Body(p) == IF call[p].kind = "write" THEN "w_mktemp" ELSE "r_open"

\* where a call continues after write_atomic() or read_file()
AfterBody(p) == IF call[p].use_lock THEN "lock_unlock" ELSE "idle"

\* the process is done with its call when it reaches "idle"
Leave(p, label) ==
    /\ Jump(p, label)
    /\ call' = IF label = "idle" THEN [call EXCEPT ![p] = Idle] ELSE call

\* a process calls atomic_write_cache(cache_path, content, use_lock)
CallWrite(p, use_lock) ==
    /\ cpc[p] = "idle"
    /\ call' = [call EXCEPT ![p] = [kind |-> "write", use_lock |-> use_lock]]
    /\ Jump(p, IF use_lock THEN "lock_open" ELSE "w_mktemp")
    /\ UNCHANGED <<cache_path, lock_path, fd, locked, tmp, rfd, got, orphan, waited>>

\* a process calls safe_cache_read(cache_path, use_lock)
CallRead(p, use_lock) ==
    /\ cpc[p] = "idle"
    /\ call' = [call EXCEPT ![p] = [kind |-> "read", use_lock |-> use_lock]]
    /\ Jump(p, "r_exists")
    /\ UNCHANGED <<cache_path, lock_path, fd, locked, tmp, rfd, got, orphan, waited>>

\* if not cache_path.exists(): return None
ReadExists(p) ==
    /\ cpc[p] = "r_exists"
    /\ IF cache_path = None
       THEN Leave(p, "idle") /\ got' = [got EXCEPT ![p] = None]
       ELSE Leave(p, IF call[p].use_lock THEN "lock_open" ELSE "r_open") /\ UNCHANGED got
    /\ UNCHANGED <<cache_path, lock_path, fd, locked, tmp, rfd, orphan, waited>>

\* lock_file = open(lock_path, 'w'): opens the file lock_path names, or creates it
LockOpen(p) ==
    /\ cpc[p] = "lock_open"
    /\ IF lock_path = 0
       THEN lock_path' = FreshInode /\ fd' = [fd EXCEPT ![p] = FreshInode]
       ELSE fd' = [fd EXCEPT ![p] = lock_path] /\ UNCHANGED lock_path
    /\ waited' = [waited EXCEPT ![p] = 0]
    /\ Jump(p, "lock_try")
    /\ UNCHANGED <<cache_path, locked, tmp, rfd, call, got, orphan>>

\* the wait loop is left: start_time is read no more
Settle(p) == waited' = [waited EXCEPT ![p] = 0]

\* fcntl.flock(LOCK_EX | LOCK_NB) succeeds
LockAcquire(p) ==
    /\ cpc[p] = "lock_try"
    /\ ~Flocked(fd[p])
    /\ locked' = [locked EXCEPT ![p] = TRUE]
    /\ Jump(p, Body(p))
    /\ Settle(p)
    /\ UNCHANGED <<cache_path, lock_path, fd, tmp, rfd, call, got, orphan>>

\* a wait that reads no clock: time.sleep(0.1) and try again, whatever time has passed
LockSleepUntimed(p) ==
    /\ cpc[p] = "lock_try"
    /\ Flocked(fd[p])
    /\ UNCHANGED cacheVars

\* flock raises IOError before the timeout: time.sleep(0.1) and try again
LockSleep(p) ==
    /\ cpc[p] = "lock_try"
    /\ Flocked(fd[p])
    /\ waited[p] < Timeout
    /\ waited' = [waited EXCEPT ![p] = waited[p] + 1]
    /\ UNCHANGED <<cache_path, lock_path, fd, locked, tmp, rfd, cpc, call, got, orphan>>

\* flock raises IOError after the timeout: raise TimeoutError, on to the finally block
LockTimeout(p) ==
    /\ cpc[p] = "lock_try"
    /\ Flocked(fd[p])
    /\ waited[p] >= Timeout
    /\ Jump(p, "lock_unlock")
    /\ Settle(p)
    /\ UNCHANGED <<cache_path, lock_path, fd, locked, tmp, rfd, call, got, orphan>>

\* finally: fcntl.flock(LOCK_UN); lock_file.close()
LockUnlock(p) ==
    /\ cpc[p] = "lock_unlock"
    /\ locked' = [locked EXCEPT ![p] = FALSE]
    /\ fd' = [fd EXCEPT ![p] = 0]
    /\ Jump(p, "lock_exists")
    /\ UNCHANGED <<cache_path, lock_path, tmp, rfd, call, got, orphan, waited>>

\* if lock_path.exists():
LockExists(p) ==
    /\ cpc[p] = "lock_exists"
    /\ Leave(p, IF lock_path # 0 THEN "lock_unlink" ELSE "idle")
    /\ UNCHANGED <<cache_path, lock_path, fd, locked, tmp, rfd, got, orphan, waited>>

\* lock_path.unlink(); a FileNotFoundError is logged and swallowed
LockUnlink(p) ==
    /\ cpc[p] = "lock_unlink"
    /\ lock_path' = 0
    /\ Leave(p, "idle")
    /\ UNCHANGED <<cache_path, fd, locked, tmp, rfd, got, orphan, waited>>

\* tempfile.NamedTemporaryFile(dir=cache_path.parent, delete=False)
MakeTemp(p) ==
    /\ cpc[p] = "w_mktemp"
    /\ tmp' = [tmp EXCEPT ![p] = <<[by |-> p, n |-> 0]>>]
    /\ Jump(p, "w_write")
    /\ UNCHANGED <<cache_path, lock_path, fd, locked, rfd, call, got, orphan, waited>>

\* a write that puts the bytes into the file at cache_path itself
WriteChunkInPlace(p) ==
    /\ cpc[p] = "w_write"
    /\ tmp[p][1].n < ContentLen
    /\ tmp' = [tmp EXCEPT ![p] = <<[by |-> p, n |-> tmp[p][1].n + 1]>>]
    /\ cache_path' = tmp'[p]
    /\ UNCHANGED <<lock_path, fd, locked, rfd, cpc, call, got, orphan, waited>>

\* tmp_file.write(content); tmp_file.flush(): the next chunk reaches the temporary file
WriteChunk(p) ==
    /\ cpc[p] = "w_write"
    /\ tmp[p][1].n < ContentLen
    /\ tmp' = [tmp EXCEPT ![p] = <<[by |-> p, n |-> tmp[p][1].n + 1]>>]
    /\ UNCHANGED <<cache_path, lock_path, fd, locked, rfd, cpc, call, got, orphan, waited>>

\* os.fsync(tmp_file.fileno()) once every chunk is written
Fsync(p) ==
    /\ cpc[p] = "w_write"
    /\ tmp[p][1].n = ContentLen
    /\ Jump(p, "w_rename")
    /\ UNCHANGED <<cache_path, lock_path, fd, locked, tmp, rfd, call, got, orphan, waited>>

\* tmp_path.rename(cache_path), then the temporary file object is closed
Rename(p) ==
    /\ cpc[p] = "w_rename"
    /\ cache_path' = tmp[p]
    /\ tmp' = [tmp EXCEPT ![p] = None]
    /\ Leave(p, AfterBody(p))
    /\ UNCHANGED <<lock_path, fd, locked, rfd, got, orphan, waited>>

\* write, fsync or rename raises: tmp_path.unlink(); raise e
WriteError(p) ==
    /\ cpc[p] \in {"w_write", "w_rename"}
    /\ tmp' = [tmp EXCEPT ![p] = None]
    /\ Leave(p, AfterBody(p))
    /\ UNCHANGED <<cache_path, lock_path, fd, locked, rfd, got, orphan, waited>>

\* open(cache_path, 'rb'); FileNotFoundError returns None
ReadOpen(p) ==
    /\ cpc[p] = "r_open"
    /\ IF cache_path = None
       THEN Leave(p, AfterBody(p)) /\ got' = [got EXCEPT ![p] = None] /\ UNCHANGED rfd
       ELSE Jump(p, "r_read") /\ rfd' = [rfd EXCEPT ![p] = cache_path]
               /\ UNCHANGED <<got, call>>
    /\ UNCHANGED <<cache_path, lock_path, fd, locked, tmp, orphan, waited>>

\* return f.read()
ReadAll(p) ==
    /\ cpc[p] = "r_read"
    /\ got' = [got EXCEPT ![p] = rfd[p]]
    /\ rfd' = [rfd EXCEPT ![p] = None]
    /\ Leave(p, AfterBody(p))
    /\ UNCHANGED <<cache_path, lock_path, fd, locked, tmp, orphan, waited>>

\* the process is killed inside a call: the kernel closes its files (and so
\* drops its flock); its temporary file stays in the directory
Kill(p) ==
    /\ cpc[p] # "idle"
    /\ Leave(p, "idle")
    /\ fd' = [fd EXCEPT ![p] = 0]
    /\ locked' = [locked EXCEPT ![p] = FALSE]
    /\ rfd' = [rfd EXCEPT ![p] = None]
    /\ tmp' = [tmp EXCEPT ![p] = None]
    /\ orphan' = IF tmp[p] # None THEN tmp[p] ELSE orphan
    /\ Settle(p)
    /\ UNCHANGED <<cache_path, lock_path, got>>

----------------------------------------------------------------------------
(* The gateways (backend/ndvi_sentinelhub.py, backend/biopar_sentinelhub.py, *)
(* backend/biopar_openeo.py) and the wrapper backend/biopar.py: a process   *)
(* serves one fetch at a time.  Each function has its own cache directory; *)
(* a file of it is named by the function and the kind of the file.          *)

max_retries == 2    \* the default of the parameter max_retries
retry_delay == 5    \* the default of the parameter retry_delay, in seconds
RETRY_BACKOFF_FACTOR == 2   \* settings.RETRY_BACKOFF_FACTOR
RetryAfter == 5     \* the number in the Retry-After header of a 429

NDVI_SH == "ndvi_sentinelhub"       \* ndvi_sentinelhub.fetch_ndvi_geotiff

BIOPAR_SH == "biopar_sentinelhub"   \* biopar_sentinelhub.fetch_biopar_geotiff

OPENEO == "biopar_openeo"           \* biopar_openeo.fetch_biopar_openeo

BIOPAR == "biopar"                  \* biopar.fetch_biopar_geotiff

NDVI == "ndvi"                      \* ndvi.get_ndvi_statistics

SentinelHub == {NDVI_SH, BIOPAR_SH}

Gateways == SentinelHub \cup {OPENEO}

\* cache_path and metadata_path = cache_path.with_suffix('.json') of a function
Tif(fn) == <<fn, "tif">>

Json(fn) == <<fn, "json">>

\* the rasters, their metadata sidecars and the statistics JSON
Files ==
    {Tif(fn) : fn \in Gateways \cup {BIOPAR}} \cup {Json(fn) : fn \in Gateways \cup {NDVI}}

\* what upstream answers to requests.post
Responses ==
    {"200", "400 no data", "400", "401", "429", "429 Retry-After", "503", "500",
     "Timeout", "ConnectionError", "small", "not TIFF"}

NoFetch == [fn |-> "none", wrapper |-> FALSE, force |-> FALSE]

\* attempt: the loop variable; last: the last answer; refreshed: token refreshes
\* after a 401; posts: the requests.post calls made; delay: the last time.sleep
\* before a retry, in milliseconds
NoHttp == [attempt |-> 0, last |-> "none", refreshed |-> 0, posts |-> 0, delay |-> 0]

FetchInit ==
    /\ disk = [f \in Files |-> None]
    /\ aged = {}
    /\ req = [p \in Procs |-> NoFetch]
    /\ fpc = [p \in Procs |-> "idle"]
    /\ http = [p \in Procs |-> NoHttp]
    /\ outcome = [p \in Procs |-> "none"]
    /\ wrote = [p \in Procs |-> 0]

\* the cache paths a fetch writes: that of the gateway and that of the wrapper
Targets(r) == {Tif(r.fn)} \cup (IF r.wrapper THEN {Tif(BIOPAR)} ELSE {})

\* open(f, 'w') by p: the file is created or truncated, nothing is written yet
Truncated(f, p) ==
    /\ disk' = [disk EXCEPT ![f] = <<[by |-> p, n |-> 0]>>]
    /\ aged' = aged \ {f}
    /\ wrote' = [wrote EXCEPT ![p] = 0]

\* p writes its next chunk at its own offset in the file f
Appended(f, p) ==
    /\ disk' = [disk EXCEPT ![f] = <<[by |-> p, n |-> Max(disk[f][1].n, wrote[p] + 1)]>>]
    /\ aged' = aged \ {f}
    /\ wrote' = [wrote EXCEPT ![p] = wrote[p] + 1]

FetchAt(p, label) == fpc[p] = label

\* the fetch of p ends: the function (and the wrapper around it) returns or raises
Finish(p, how) ==
    /\ fpc' = [fpc EXCEPT ![p] = "idle"]
    /\ outcome' = [outcome EXCEPT ![p] = how]
    /\ UNCHANGED req

\* the gateway returns cache_path: to its caller, or to the wrapper, which copies
GatewayReturns(p, how) ==
    IF req[p].wrapper
    THEN fpc' = [fpc EXCEPT ![p] = "copy_open"] /\ UNCHANGED <<outcome, req>>
    ELSE Finish(p, how)

\* a process calls a gateway, or the wrapper which calls the gateway
FetchCall(p, fn, wrapper, force) ==
    /\ FetchAt(p, "idle")
    /\ wrapper => fn \in {BIOPAR_SH, OPENEO}
    /\ force => (wrapper \/ fn = OPENEO)
    /\ req' = [req EXCEPT ![p] = [fn |-> fn, wrapper |-> wrapper, force |-> force]]
    /\ fpc' = [fpc EXCEPT ![p] = IF wrapper THEN "wrapper_check" ELSE "check"]
    /\ http' = [http EXCEPT ![p] = NoHttp]
    /\ outcome' = [outcome EXCEPT ![p] = "running"]
    /\ UNCHANGED <<disk, aged, wrote>>

\* biopar.fetch_biopar_geotiff: if tif_path.exists() and not force: return tif_path
WrapperCheck(p) ==
    /\ FetchAt(p, "wrapper_check")
    /\ IF disk[Tif(BIOPAR)] # None /\ ~req[p].force
       THEN Finish(p, "hit")
       ELSE fpc' = [fpc EXCEPT ![p] = "check"] /\ UNCHANGED <<outcome, req>>
    /\ UNCHANGED <<disk, aged, http, wrote>>

\* the gateway: if cache_path.exists() (and not force, for openEO): return cache_path
CacheCheck(p) ==
    /\ FetchAt(p, "check")
    /\ LET fn == req[p].fn
           hit == disk[Tif(fn)] # None /\ ~(fn = OPENEO /\ req[p].force)
       IN  IF hit
           THEN GatewayReturns(p, "hit")
           ELSE /\ fpc' = [fpc EXCEPT ![p] = IF fn = OPENEO THEN "connect" ELSE "token"]
                /\ UNCHANGED <<outcome, req>>
    /\ UNCHANGED <<disk, aged, http, wrote>>

\* token = get_cdse_token(): a token, or AuthenticationError
GetToken(p, ok) ==
    /\ FetchAt(p, "token")
    /\ IF ok
       THEN fpc' = [fpc EXCEPT ![p] = "post"] /\ UNCHANGED <<outcome, req>>
       ELSE Finish(p, "AuthenticationError")
    /\ UNCHANGED <<disk, aged, http, wrote>>

\* what the retry loop does next: post again, save the response, or raise
Fail(error) == [to |-> "fail", error |-> error, refresh |-> FALSE]

Retry == [to |-> "retry", error |-> "none", refresh |-> FALSE]

Save == [to |-> "write", error |-> "none", refresh |-> FALSE]

\* a loop whose continue is not guarded by the attempt
RetryOrUnbounded(attempt, error) == Retry

\* if attempt < max_retries: sleep and continue; else: raise
RetryOr(attempt, error) == IF attempt < max_retries THEN Retry ELSE Fail(error)

\* the same with token = get_cdse_token() before the continue; get_cdse_token
\* may raise AuthenticationError
RefreshOr(attempt, tokenOk, error) ==
    IF attempt < max_retries
    THEN IF tokenOk
         THEN [Retry EXCEPT !.refresh = TRUE]
         ELSE [Fail("AuthenticationError") EXCEPT !.refresh = TRUE]
    ELSE Fail(error)

\* a 400 that is handled as the 502, 503 and 504 are
On400Retried(r, attempt) == RetryOr(attempt, "SentinelHubError")

\* if resp.status_code == 400: NoDataAvailableError or SentinelHubError, by the text
On400(r, attempt) ==
    IF r = "400 no data" THEN Fail("NoDataAvailableError") ELSE Fail("SentinelHubError")

\* elif resp.status_code == 401
On401(fn, attempt, tokenOk) ==
    IF fn = NDVI_SH
    THEN Fail("AuthenticationError")
    ELSE RefreshOr(attempt, tokenOk, "AuthenticationError")

\* one pass of `for attempt in range(max_retries + 1)` on the answer r
Verdict(fn, r, attempt, tokenOk) ==
    CASE r \in {"400 no data", "400"} -> On400(r, attempt)
      [] r = "401" -> On401(fn, attempt, tokenOk)
      [] r \in {"429", "429 Retry-After"} ->
            RefreshOr(attempt, tokenOk, "SentinelHubError")
      [] r \in {"503", "500", "Timeout", "ConnectionError", "not TIFF"} ->
            RetryOr(attempt, "SentinelHubError")
      [] r = "small" -> RetryOr(attempt, "NoDataAvailableError")
      [] r = "200" -> Save

\* seconds, as time.sleep takes them, in milliseconds
Millis(seconds) == seconds * 1000

\* _calculate_retry_delay: base_delay * (backoff_factor ** attempt), in milliseconds
calculate_retry_delay(attempt, base_delay, backoff_factor) ==
    Millis(base_delay) * backoff_factor ^ attempt

\* int(resp.headers.get("Retry-After", retry_delay * 1000)) / 1000 seconds: the
\* header's number is a number of milliseconds to the division
RetryAfterDelay(header) == Millis(header) \div 1000

\* the time.sleep before the continue that follows the answer r of the 0-based
\* attempt, in milliseconds
Delay(fn, r, attempt) ==
    CASE r = "429 Retry-After" -> RetryAfterDelay(RetryAfter)
      [] r = "429" /\ fn = BIOPAR_SH -> RetryAfterDelay(retry_delay * 1000)
      [] fn = BIOPAR_SH -> Millis(retry_delay)
      [] OTHER -> calculate_retry_delay(attempt, retry_delay, RETRY_BACKOFF_FACTOR)

\* requests.post(SH_PROCESS_URL, ...) and the handling of its answer
Post(p, r, tokenOk) ==
    /\ FetchAt(p, "post")
    /\ LET h == http[p]
           v == Verdict(req[p].fn, r, h.attempt, tokenOk)
       IN  /\ http' = [http EXCEPT ![p] =
                          [attempt |-> IF v.to = "retry" THEN h.attempt + 1 ELSE h.attempt,
                           last |-> r,
                           refreshed |-> IF r = "401" /\ v.refresh
                                         THEN h.refreshed + 1 ELSE h.refreshed,
                           posts |-> h.posts + 1,
                           delay |-> IF v.to = "retry"
                                     THEN Delay(req[p].fn, r, h.attempt) ELSE h.delay]]
           /\ CASE v.to = "fail" -> Finish(p, v.error)
                [] v.to = "retry" -> UNCHANGED <<fpc, outcome, req>>
                [] v.to = "write" ->
                      fpc' = [fpc EXCEPT ![p] = "write"] /\ UNCHANGED <<outcome, req>>
    /\ UNCHANGED <<disk, aged, wrote>>

\* atomic_write_cache(cache_path, content, use_lock=True) returns: the complete
\* content is at cache_path (C9_NoPartialContent, on the steps of the call)
WriteCache(p) ==
    /\ FetchAt(p, "write")
    /\ disk' = [disk EXCEPT ![Tif(req[p].fn)] = <<[by |-> p, n |-> ContentLen]>>]
    /\ aged' = aged \ {Tif(req[p].fn)}
    /\ fpc' = [fpc EXCEPT ![p] = "meta_open"]
    /\ UNCHANGED <<req, http, outcome, wrote>>

\* atomic_write_cache raises (TimeoutError of file_lock, an error of the write
\* or of the rename): cache_path is as it was
WriteCacheRaises(p) ==
    /\ FetchAt(p, "write")
    /\ fpc' = [fpc EXCEPT ![p] = "cleanup"]
    /\ UNCHANGED <<disk, aged, req, http, outcome, wrote>>

\* except Exception: if cache_path.exists(): cache_path.unlink();
\* raise SentinelHubError
WriteCleanup(p) ==
    /\ FetchAt(p, "cleanup")
    /\ disk' = [disk EXCEPT ![Tif(req[p].fn)] = None]
    /\ aged' = aged \ {Tif(req[p].fn)}
    /\ Finish(p, "SentinelHubError")
    /\ UNCHANGED <<http, wrote>>

\* with open(metadata_path, "w") as f
MetaOpen(p) ==
    /\ FetchAt(p, "meta_open")
    /\ Truncated(Json(req[p].fn), p)
    /\ fpc' = [fpc EXCEPT ![p] = "meta_dump"]
    /\ UNCHANGED <<req, http, outcome>>

\* json.dump(metadata, f): the next chunk; the file is closed after the last
MetaDump(p) ==
    /\ FetchAt(p, "meta_dump")
    /\ Appended(Json(req[p].fn), p)
    /\ IF wrote[p] + 1 = ContentLen
       THEN GatewayReturns(p, "ok")
       ELSE UNCHANGED <<fpc, outcome, req>>
    /\ UNCHANGED http

\* open or json.dump raises: a Sentinel Hub gateway logs it and returns
\* cache_path, the openEO gateway raises OpenEOError
MetaError(p) ==
    /\ fpc[p] \in {"meta_open", "meta_dump"}
    /\ IF req[p].fn = OPENEO THEN Finish(p, "OpenEOError") ELSE GatewayReturns(p, "ok")
    /\ UNCHANGED <<disk, aged, http, wrote>>

\* connection = _connect() and the datacube: an error becomes OpenEOError
Connect(p, ok) ==
    /\ FetchAt(p, "connect")
    /\ IF ok
       THEN fpc' = [fpc EXCEPT ![p] = "download"] /\ UNCHANGED <<outcome, req>>
       ELSE Finish(p, "OpenEOError")
    /\ UNCHANGED <<disk, aged, http, wrote>>

\* cube.download(outputfile=str(cache_path)) raises before it opens the file
DownloadRefused(p, error) ==
    /\ FetchAt(p, "download")
    /\ error \in {"NoDataAvailableError", "OpenEOError"}
    /\ Finish(p, error)
    /\ UNCHANGED <<disk, aged, http, wrote>>

\* cube.download opens the file at cache_path for writing
DownloadOpen(p) ==
    /\ FetchAt(p, "download")
    /\ Truncated(Tif(OPENEO), p)
    /\ fpc' = [fpc EXCEPT ![p] = "downloading"]
    /\ UNCHANGED <<req, http, outcome>>

\* cube.download writes the next chunk of the response; it returns after the last
DownloadChunk(p) ==
    /\ FetchAt(p, "downloading")
    /\ Appended(Tif(OPENEO), p)
    /\ fpc' = [fpc EXCEPT ![p] = IF wrote[p] + 1 = ContentLen
                                 THEN "meta_open" ELSE "downloading"]
    /\ UNCHANGED <<req, http, outcome>>

\* cube.download raises while it writes: except Exception: raise OpenEOError
DownloadError(p) ==
    /\ FetchAt(p, "downloading")
    /\ Finish(p, "OpenEOError")
    /\ UNCHANGED <<disk, aged, http, wrote>>

\* the cache path of the gateway that the wrapper copies from
CopySource(p) == disk[Tif(req[p].fn)]

\* shutil.copy(path, tif_path) opens tif_path for writing
CopyOpen(p) ==
    /\ FetchAt(p, "copy_open")
    /\ Truncated(Tif(BIOPAR), p)
    /\ fpc' = [fpc EXCEPT ![p] = "copying"]
    /\ UNCHANGED <<req, http, outcome>>

\* shutil.copy writes the next chunk it has read from the source
CopyChunk(p) ==
    /\ FetchAt(p, "copying")
    /\ CopySource(p) # None /\ wrote[p] < CopySource(p)[1].n
    /\ Appended(Tif(BIOPAR), p)
    /\ UNCHANGED <<fpc, req, http, outcome>>

\* shutil.copy has reached the end of the source: return tif_path
CopyDone(p) ==
    /\ FetchAt(p, "copying")
    /\ CopySource(p) = None \/ wrote[p] >= CopySource(p)[1].n
    /\ Finish(p, "ok")
    /\ UNCHANGED <<disk, aged, http, wrote>>

\* shutil.copy raises: except Exception: raise
CopyError(p) ==
    /\ fpc[p] \in {"copy_open", "copying"}
    /\ Finish(p, "OSError")
    /\ UNCHANGED <<disk, aged, http, wrote>>

\* a process calls get_ndvi_statistics(bbox, start_date, end_date, use_cache=True)
StatsCall(p) ==
    /\ FetchAt(p, "idle")
    /\ req' = [req EXCEPT ![p] = [fn |-> NDVI, wrapper |-> FALSE, force |-> FALSE]]
    /\ fpc' = [fpc EXCEPT ![p] = "stats_check"]
    /\ http' = [http EXCEPT ![p] = NoHttp]
    /\ outcome' = [outcome EXCEPT ![p] = "running"]
    /\ UNCHANGED <<disk, aged, wrote>>

\* if cache_path.exists()
StatsCheck(p) ==
    /\ FetchAt(p, "stats_check")
    /\ fpc' = [fpc EXCEPT ![p] = IF disk[Json(NDVI)] # None THEN "stats_load" ELSE "stats_api"]
    /\ UNCHANGED <<disk, aged, req, http, outcome, wrote>>

\* with open(cache_path, 'r') as f: cached = json.load(f); return cached.
\* json.load of a file that is not whole (or open of one that is gone) raises,
\* which is logged, and the statistics are requested
StatsLoad(p) ==
    /\ FetchAt(p, "stats_load")
    /\ IF disk[Json(NDVI)] # None /\ Complete(disk[Json(NDVI)][1])
       THEN Finish(p, "hit")
       ELSE fpc' = [fpc EXCEPT ![p] = "stats_api"] /\ UNCHANGED <<outcome, req>>
    /\ UNCHANGED <<disk, aged, http, wrote>>

\* the token and the request to the Statistical API: the statistics, or an error
StatsApi(p, error) ==
    /\ FetchAt(p, "stats_api")
    /\ IF error = "none"
       THEN fpc' = [fpc EXCEPT ![p] = "stats_open"] /\ UNCHANGED <<outcome, req>>
       ELSE Finish(p, error)
    /\ UNCHANGED <<disk, aged, http, wrote>>

\* with open(cache_path, 'w') as f
StatsOpen(p) ==
    /\ FetchAt(p, "stats_open")
    /\ Truncated(Json(NDVI), p)
    /\ fpc' = [fpc EXCEPT ![p] = "stats_dump"]
    /\ UNCHANGED <<req, http, outcome>>

\* json.dump(response, f, indent=2): the next chunk; return response after the last
StatsDump(p) ==
    /\ FetchAt(p, "stats_dump")
    /\ Appended(Json(NDVI), p)
    /\ IF wrote[p] + 1 = ContentLen THEN Finish(p, "ok") ELSE UNCHANGED <<fpc, outcome, req>>
    /\ UNCHANGED http

\* open or json.dump raises: logged, return response
StatsError(p) ==
    /\ fpc[p] \in {"stats_open", "stats_dump"}
    /\ Finish(p, "ok")
    /\ UNCHANGED <<disk, aged, http, wrote>>

\* time passes: the file f in the cache is now older than the TTL the settings
\* give for files of its kind (CACHE_TTL_GEOTIFF, CACHE_TTL_STATS)
Expire(f) ==
    /\ disk[f] # None /\ f \notin aged
    /\ aged' = aged \cup {f}
    /\ UNCHANGED <<disk, req, fpc, http, outcome, wrote>>

\* is_cache_valid(cache_path, max_age_seconds) with the TTL of the settings
is_cache_valid(f) == disk[f] # None /\ f \notin aged

\* the process is killed during a fetch
FetchKill(p) ==
    /\ fpc[p] # "idle"
    /\ Finish(p, "killed")
    /\ UNCHANGED <<disk, aged, http, wrote>>

----------------------------------------------------------------------------
(* The cache keys: _cache_key of the gateways, _digest_for of backend/biopar.py *)
(* and _stats_cache_key of backend/ndvi.py.  A dict is the sequence of its  *)
(* <<key, value>> pairs in insertion order.  A coordinate is an integer     *)
(* number of 10^-7 degrees, one digit more than round(b, 6) keeps.          *)

Sides == {"a", "b"}

\* the arguments of a request; version is the EVALSCRIPT_VERSION of the deployment
DefaultArgs ==
    [x |-> 10, order |-> 1, start |-> "2024-06-01", btype |-> "FAPAR", width |-> 512,
     cloud |-> 20, mosaic |-> "leastCC", harmonize |-> TRUE, resampling |-> "BILINEAR",
     version |-> "v2.0"]

\* one argument given another value
Changes ==
    {<<"x", 14>>, <<"x", 16>>, <<"x", 20>>, <<"order", 2>>, <<"start", "2024-07-01">>,
     <<"btype", "fapar">>, <<"btype", "LAI">>, <<"width", 1024>>, <<"cloud", 30>>,
     <<"mosaic", "mostRecent">>, <<"harmonize", FALSE>>, <<"resampling", "NEAREST">>,
     <<"version", "v2.1">>}

KeysInit ==
    /\ args = [s \in Sides |-> DefaultArgs]
    /\ key = [s \in Sides |-> None]

\* the key functions
KeyFunctions == {NDVI_SH, BIOPAR_SH, OPENEO, BIOPAR, NDVI}

\* str.upper() and str.lower() on the BIOPAR types
Upper(t) == IF t = "fapar" THEN "FAPAR" ELSE t

Lower(t) == IF t = "FAPAR" THEN "fapar" ELSE IF t = "LAI" THEN "lai" ELSE t

\* round(b, 6): to the nearest multiple of 10^-6, a tie to the even one
Round6(b) ==
    LET q == b \div 10
        r == b % 10
    IN  IF r > 5 \/ (r = 5 /\ q % 2 = 1) THEN q + 1 ELSE q

\* bbox = [minlon, minlat, maxlon, maxlat]
Bbox(r) == <<r.x, 0, r.x + 1000, 1000>>

\* the GeoJSON polygon of the same area, its keys in the order the caller gave them
Aoi(r) ==
    LET ring == <<<<r.x, 0>>, <<r.x + 1000, 0>>, <<r.x + 1000, 1000>>, <<r.x, 0>>>>
    IN  IF r.order = 1
        THEN << <<"type", "Polygon">>, <<"coordinates", ring>> >>
        ELSE << <<"coordinates", ring>>, <<"type", "Polygon">> >>

\* the keys of the payloads in the order of their strings
Alphabet ==
    <<"agg_days", "aoi", "bbox", "biopar", "biopar_type", "cloud", "coordinates", "end",
      "evalscript_version", "h", "harmonize", "mask", "mosaic", "start", "type", "w">>

KeyRank(k) == CHOOSE i \in 1..Len(Alphabet) : Alphabet[i] = k

\* the items of a dict in the order of their keys
SortKeys(d) ==
    LET items == {d[i] : i \in 1..Len(d)}
    IN  [i \in 1..Len(d) |->
            CHOOSE e \in items :
                Cardinality({f \in items : KeyRank(f[1]) < KeyRank(e[1])}) = i - 1]

\* json.dumps(payload, sort_keys=True): the dict nested under "aoi" is sorted too
Dumps(payload) ==
    SortKeys([i \in 1..Len(payload) |->
                IF payload[i][1] = "aoi"
                THEN <<"aoi", SortKeys(payload[i][2])>>
                ELSE payload[i]])

\* hashlib.sha256(text).hexdigest()[:16], taken to be free of collisions
Digest(text) == <<"sha256", text>>

\* mosaicking_order or "default"
OrDefault(mosaic) == IF mosaic = "" THEN "default" ELSE mosaic

\* the payload each key function hashes; "end", "h" and "mask" go into it as
\* "start", "w" and "harmonize" do and are left out, as is "agg_days"
Payload(fn, r) ==
    CASE fn = NDVI_SH ->
            << <<"bbox", [i \in 1..4 |-> Round6(Bbox(r)[i])]>>, <<"start", r.start>>,
               <<"w", r.width>>, <<"cloud", r.cloud>>, <<"mosaic", OrDefault(r.mosaic)>>,
               <<"harmonize", r.harmonize>>, <<"evalscript_version", r.version>> >>
      [] fn = BIOPAR_SH ->
            << <<"bbox", [i \in 1..4 |-> Round6(Bbox(r)[i])]>>, <<"start", r.start>>,
               <<"w", r.width>>, <<"cloud", r.cloud>>, <<"mosaic", OrDefault(r.mosaic)>>,
               <<"biopar", Upper(r.btype)>>, <<"evalscript_version", r.version>> >>
      [] fn = OPENEO ->
            << <<"aoi", Aoi(r)>>, <<"start", r.start>>, <<"biopar", Upper(r.btype)>> >>
      [] fn = BIOPAR ->
            << <<"aoi", Aoi(r)>>, <<"start", r.start>>, <<"biopar_type", Upper(r.btype)>> >>
      [] fn = NDVI ->
            << <<"bbox", [i \in 1..4 |-> Round6(Bbox(r)[i])]>>, <<"start", r.start>> >>

\* the name of the cache file: a prefix, the type where the name has it, the digest
CacheName(fn, r) ==
    [prefix |-> fn,
     btype |-> IF fn \in {BIOPAR_SH, OPENEO, BIOPAR} THEN Lower(r.btype) ELSE "",
     digest |-> Digest(Dumps(Payload(fn, r)))]

\* what the function asks upstream for: the area to the precision of the keys,
\* and each argument that reaches the request
Requested(fn, r) ==
    LET area == [i \in 1..4 |-> Round6(Bbox(r)[i])]
    IN  CASE fn \in SentinelHub ->
                <<area, r.start, r.width, r.cloud, r.mosaic, r.harmonize, r.resampling,
                  IF fn = BIOPAR_SH THEN Upper(r.btype) ELSE "NDVI">>
          [] fn \in {OPENEO, BIOPAR} -> <<area, r.start, Upper(r.btype)>>
          [] fn = NDVI -> <<area, r.start>>

\* a caller makes a request: the default arguments, or one of them changed
KeyRequest(s, change) ==
    /\ args' = [args EXCEPT ![s] = IF change[1] = "none"
                                   THEN DefaultArgs
                                   ELSE [DefaultArgs EXCEPT ![change[1]] = change[2]]]
    /\ key' = [t \in Sides |-> None]

\* the key function fn names the cache files of both requests
DeriveKey(fn) ==
    /\ key' = [s \in Sides |-> <<CacheName(fn, args[s])>>]
    /\ UNCHANGED args

----------------------------------------------------------------------------
(* The functions that keep no state: a call is made on arguments drawn from *)
(* bounded sets, then the function is applied to them.                      *)

CallInit == input = None /\ output = None

\* a call has been made and has not returned
Called == input # None /\ output = None

\* the call returns or raises `result`
Returns(result) == Called /\ output' = <<result>> /\ UNCHANGED input

\* a call on the arguments `arguments`
Calls(arguments) == input' = <<arguments>> /\ output' = None

\* ---- the answer to an HTTP 400 of the upstream ----

\* the phrases a 400 body is searched for, by any gateway or by the specification
Phrases ==
    {"no data", "no satellite", "no scenes", "no products", "not found", "unavailable"}

\* resp.text.lower(), as the set of the phrases it contains
Bodies == SUBSET Phrases

\* the functions that read the body of a 400: the raster fetches of the gateways
\* and the statistics of backend/ndvi.py and backend/biopar.py
Readers400 == {NDVI_SH, BIOPAR_SH, NDVI, BIOPAR}

\* the phrases after which the function raises NoDataAvailableError
NoDataPhrases(fn) ==
    IF fn \in SentinelHub
    THEN {"no data", "no satellite", "no scenes", "no products"}
    ELSE {"no data"}

\* if any(phrase in error_lower for phrase in [...]): raise NoDataAvailableError;
\* raise SentinelHubError
Classify400(fn, body) ==
    IF body \cap NoDataPhrases(fn) # {} THEN "NoDataAvailableError" ELSE "SentinelHubError"

\* requests.post answers 400 with the body `body`
Answer400(fn, body) == Calls([fn |-> fn, body |-> body])

\* if resp.status_code == 400: ...
Raise400 == Returns(Classify400(input[1].fn, input[1].body))

\* ---- the route layer (backend/api/routers) ----

Endpoints ==
    {"ndvi/statistics", "ndvi/histogram", "ndvi/geotiff", "biopar/stats", "biopar/geotiff"}

\* the exception classes; the three modules define a NoDataAvailableError each
NDVI_NODATA == "ndvi_sentinelhub.NoDataAvailableError"

NDVI_SHERROR == "ndvi_sentinelhub.SentinelHubError"

BIOPAR_NODATA == "biopar_sentinelhub.NoDataAvailableError"

BIOPAR_SHERROR == "biopar_sentinelhub.SentinelHubError"

OPENEO_NODATA == "biopar_openeo.NoDataAvailableError"

OPENEO_ERROR == "biopar_openeo.OpenEOError"

NoDataClasses == {NDVI_NODATA, BIOPAR_NODATA, OPENEO_NODATA}

\* class NoDataAvailableError(SentinelHubError), class SentinelHubError(Exception),
\* class NoDataAvailableError(OpenEOError), class OpenEOError(Exception)
Bases(class) ==
    CASE class = NDVI_NODATA -> {NDVI_NODATA, NDVI_SHERROR, "Exception"}
      [] class = BIOPAR_NODATA -> {BIOPAR_NODATA, BIOPAR_SHERROR, "Exception"}
      [] class = OPENEO_NODATA -> {OPENEO_NODATA, OPENEO_ERROR, "Exception"}
      [] OTHER -> {class, "Exception"}

isinstance(error, class) == class \in Bases(error.class)

\* an exception: its class and str(e).lower() as the set of the phrases it contains
Error(class, text) == [class |-> class, text |-> text]

\* the messages of the other failures
Texts == {{}, {"no data"}, {"not found"}, {"invalid"}, {"unavailable"}}

\* the NoDataAvailableError the function behind the endpoint raises: "No data
\* ...", "No valid ...", "All observations masked ...", "No satellite data ..."
NoDataRaised(endpoint) ==
    CASE endpoint = "ndvi/statistics" ->
            {Error(NDVI_NODATA, t) : t \in {{"no data"}, {"no valid"}, {}}}
      [] endpoint = "ndvi/histogram" ->
            {Error(NDVI_NODATA, t) : t \in {{"no data"}, {"no valid"}}}
      [] endpoint = "ndvi/geotiff" -> {Error(NDVI_NODATA, {"no satellite"})}
      [] endpoint = "biopar/stats" ->
            {Error(BIOPAR_NODATA, t) : t \in {{"no data"}, {"no valid"}, {}}}
            \cup {Error(OPENEO_NODATA, {"no satellite"})}
      [] endpoint = "biopar/geotiff" ->
            {Error(BIOPAR_NODATA, {"no satellite"}), Error(OPENEO_NODATA, {"no satellite"})}

\* the other exceptions raised in the function behind the endpoint
OtherRaised(endpoint) ==
    LET classes ==
            IF endpoint \in {"ndvi/statistics", "ndvi/histogram", "ndvi/geotiff"}
            THEN {NDVI_SHERROR, "ValueError", "Exception"}
            ELSE {BIOPAR_SHERROR, OPENEO_ERROR, "ValueError", "Exception"}
    IN  {Error(c, t) : c \in classes, t \in Texts}

Raised(endpoint) == NoDataRaised(endpoint) \cup OtherRaised(endpoint)

\* what the function behind the endpoint hands to the route: the exception, or
\* the dict {"status": "error", "message": str(e)}
Handed(endpoint, error) ==
    CASE endpoint \in {"ndvi/statistics", "ndvi/histogram"} ->
            IF isinstance(error, NDVI_NODATA)
            THEN [raised |-> TRUE, error |-> error]
            ELSE [raised |-> FALSE, error |-> error]
      [] endpoint = "biopar/stats" -> [raised |-> FALSE, error |-> error]
      [] OTHER -> [raised |-> TRUE, error |-> error]

\* no_data_indicators of the route
no_data_indicators(endpoint) ==
    CASE endpoint = "ndvi/statistics" ->
            {"no sentinel", "no products", "no data", "no satellite", "no valid",
             "no scenes", "not found", "unavailable"}
      [] endpoint = "ndvi/histogram" ->
            {"no valid", "no data", "no pixels", "no satellite", "not found", "unavailable"}
      [] endpoint = "biopar/stats" ->
            {"no data", "no satellite", "not found", "unavailable", "no valid", "no products"}
      [] OTHER -> {}

\* if result.get("status") == "error": the HTTPException the route raises
StatusOfDict(endpoint, text) ==
    IF text \cap no_data_indicators(endpoint) # {} THEN 404
    ELSE IF endpoint = "biopar/stats"
         THEN IF "invalid" \in text THEN 400 ELSE 422
         ELSE 500

\* the except clauses of the route, in their order
StatusOfException(endpoint, error) ==
    LET NoData == IF endpoint = "biopar/geotiff" THEN BIOPAR_NODATA ELSE NDVI_NODATA
        SHError == IF endpoint = "biopar/geotiff" THEN BIOPAR_SHERROR ELSE NDVI_SHERROR
    IN  CASE isinstance(error, "ValueError") -> 400
          [] endpoint # "ndvi/statistics" /\ isinstance(error, NoData) -> 404
          [] endpoint \in {"ndvi/geotiff", "biopar/geotiff"} /\ isinstance(error, SHError) -> 503
          [] OTHER -> 500

\* the status code of the response of the route
RouteStatus(endpoint, error) ==
    LET handed == Handed(endpoint, error)
    IN  IF handed.raised
        THEN StatusOfException(endpoint, handed.error)
        ELSE StatusOfDict(endpoint, handed.error.text)

\* the function behind the endpoint fails with `error`
Fails(endpoint, error) == Calls([endpoint |-> endpoint, error |-> error])

\* the route answers
Respond == Returns(RouteStatus(input[1].endpoint, input[1].error))

\* ---- the resolution selectors (backend/ndvi.py, backend/biopar.py) ----
\* A length is an integer number of centimetres and an angle an integer number
\* of 0.001 degrees, so that the products and quotients of the code are exact.

S2L2A_MIN_MPP == 10

S2L2A_MAX_MPP == 1500

BIOPAR_MIN_MPP == 10

BIOPAR_MAX_MPP == 300

MIN_PIXELS == 64

MAX_PIXELS == 4096

\* m_per_deg_lat = 111_320.0, in centimetres per 0.001 degree
CM_PER_MILLIDEGREE == 11132

\* the sides of the square bboxes, in 0.001 degrees: from 0.001 to 20 degrees
Sides001 == {1, 10, 100, 500, 1000, 2000, 5000, 8000, 10000, 11000, 12000, 15000, 20000}

\* lat_mid, in degrees, where the cosine is a decimal fraction
Latitudes == {0, 60}

\* target_mpp of the callers
TargetMpp == {10, 60}

\* the two selectors
Selectors == {NDVI, BIOPAR}

\* cos(radians(lat_mid)), in thousandths
Cosine(lat_mid) == IF lat_mid = 60 THEN 500 ELSE 1000

\* ceil(a / b) of positive numbers
Ceil(a, b) == (a + b - 1) \div b

\* a number of metres, in centimetres
Metres(m) == m * 100

\* _approx_bbox_size_meters of the square bbox of side `side` around lat_mid
approx_bbox_size_meters(side, lat_mid) ==
    LET m_per_deg_lat == CM_PER_MILLIDEGREE
        m_per_deg_lon == (CM_PER_MILLIDEGREE * Cosine(lat_mid)) \div 1000
    IN  [width_m |-> Max(Metres(1), side * m_per_deg_lon),
         height_m |-> Max(Metres(1), side * m_per_deg_lat)]

\* the body the two selectors share, on the limits min_mpp and max_mpp
choose_resolution(size, target_mpp, min_mpp, max_mpp) ==
    LET w_m == size.width_m
        h_m == size.height_m
        mpp == Max(min_mpp, Min(target_mpp, max_mpp))
        w_px == Max(MIN_PIXELS, Min(MAX_PIXELS, Ceil(w_m, Metres(mpp))))
        h_px == Max(MIN_PIXELS, Min(MAX_PIXELS, Ceil(h_m, Metres(mpp))))
        \* eff_mpp = max(w_m / w_px, h_m / h_px); if eff_mpp > max_mpp
        coarse == w_m > Metres(max_mpp) * w_px \/ h_m > Metres(max_mpp) * h_px
    IN  IF coarse
        THEN [width |-> Max(w_px, Min(MAX_PIXELS, Ceil(w_m, Metres(max_mpp)))),
              height |-> Max(h_px, Min(MAX_PIXELS, Ceil(h_m, Metres(max_mpp))))]
        ELSE [width |-> w_px, height |-> h_px]

\* _choose_resolution_and_size_for_s2(bbox, target_mpp)
choose_resolution_and_size_for_s2(size, target_mpp) ==
    choose_resolution(size, target_mpp, S2L2A_MIN_MPP, S2L2A_MAX_MPP)

\* _choose_resolution_for_biopar(bbox, target_mpp)
choose_resolution_for_biopar(size, target_mpp) ==
    choose_resolution(size, target_mpp, BIOPAR_MIN_MPP, BIOPAR_MAX_MPP)

\* a caller asks a selector for the pixels of a bbox
Select(fn, side, lat_mid, target_mpp) ==
    Calls([fn |-> fn, size |-> approx_bbox_size_meters(side, lat_mid),
           target_mpp |-> target_mpp])

\* the selector returns (w_px, h_px)
Selected ==
    Returns(IF input[1].fn = NDVI
            THEN choose_resolution_and_size_for_s2(input[1].size, input[1].target_mpp)
            ELSE choose_resolution_for_biopar(input[1].size, input[1].target_mpp))

\* ---- timelines and trends (backend/ndvi.py, backend/biopar.py) ----
\* A mean is an integer number of 10^-5; a window of the upstream answer is
\* None (no band_stats, or a mean that is None or NaN) or <<mean>>.

\* get_biopar_timeseries for CCC and CWC: one GeoTIFF per window
TIMESERIES == "biopar_timeseries"

\* get_ndvi_statistics, _get_biopar_stats_statistical_api, get_biopar_timeseries
Summaries == {NDVI, BIOPAR, TIMESERIES}

Means == {30041, 32165}

Windows == {None} \cup {<<m>> : m \in Means}

\* the answers of at most MaxWindows windows
Answers == UNION {[1..n -> Windows] : n \in 0..MaxWindows}

\* round(v, digits): to the nearest multiple of `unit`, a tie to the even one
RoundHalfEven(v, unit) ==
    LET q == v \div unit
        r == v % unit
    IN  IF 2 * r > unit \/ (2 * r = unit /\ q % 2 = 1) THEN (q + 1) * unit ELSE q * unit

\* round(mean_val, 3) in get_ndvi_statistics, round(mean_val, 4) in backend/biopar.py
RoundMean(fn, v) == IF fn = NDVI THEN RoundHalfEven(v, 100) ELSE RoundHalfEven(v, 10)

RECURSIVE StatsTimeline(_, _, _)
\* for item in data: ... if mean_val is None: continue; timeline.append({...}),
\* over the first n windows; the date of a window is its place in the answer
StatsTimeline(fn, data, n) ==
    IF n = 0 THEN <<>>
    ELSE LET rest == StatsTimeline(fn, data, n - 1)
         IN  IF data[n] = None
             THEN rest
             ELSE Append(rest, [date |-> n, mean |-> <<RoundMean(fn, data[n][1])>>])

\* for i, (w_start, w_end) in enumerate(windows): timeline.append({"date": w_end,
\* "mean": round(...)}) or timeline.append({"date": w_end, "mean": None})
WindowTimeline(fn, data) ==
    [i \in 1..Len(data) |->
        [date |-> i,
         mean |-> IF data[i] = None THEN None ELSE <<RoundMean(fn, data[i][1])>>]]

RECURSIVE SumOf(_, _)
\* the sum of f[i] over the first n places of f
SumOf(f, n) == IF n = 0 THEN 0 ELSE SumOf(f, n - 1) + f[n]

\* the sign of the slope of linregress(xs, ys) against the threshold epsilon (in
\* 10^-5): slope = (n Sxy - Sx Sy) / (n Sxx - Sx Sx)
Direction(xs, ys, epsilon) ==
    LET n == Len(ys)
        Sx == SumOf(xs, n)
        Sy == SumOf(ys, n)
        Sxy == SumOf([i \in 1..n |-> xs[i] * ys[i]], n)
        Sxx == SumOf([i \in 1..n |-> xs[i] * xs[i]], n)
        num == n * Sxy - Sx * Sy
        den == n * Sxx - Sx * Sx
        abs == IF num < 0 THEN 0 - num ELSE num
    IN  IF abs < epsilon * den THEN "stable"
        ELSE IF num > 0 THEN "increasing" ELSE "decreasing"

\* the trend of fewer points than the regression takes
InsufficientData ==
    [direction |-> "insufficient_data", slope |-> "0.0", r_squared |-> "0.0",
     p_value |-> "1.0"]

\* a regression over two points only
EnoughPointsFromTwo(ys) == Len(ys) >= 2

\* if len(all_means) >= 3
EnoughPoints(ys) == Len(ys) >= 3

\* the trend dict; slope, r_squared and p_value of a regression are the rounded
\* results of scipy_stats.linregress
Trend(xs, ys, epsilon) ==
    IF EnoughPoints(ys)
    THEN [direction |-> Direction(xs, ys, epsilon), slope |-> "linregress",
          r_squared |-> "linregress", p_value |-> "linregress"]
    ELSE InsufficientData

\* the means that are not None, in the order of the windows
RECURSIVE NonNull(_, _)
NonNull(data, n) ==
    IF n = 0 THEN <<>>
    ELSE IF data[n] = None THEN NonNull(data, n - 1)
         ELSE Append(NonNull(data, n - 1), data[n][1])

\* the places of the entries of the timeline whose mean is not None
RECURSIVE Places(_, _)
Places(timeline, n) ==
    IF n = 0 THEN <<>>
    ELSE IF timeline[n].mean = None THEN Places(timeline, n - 1)
         ELSE Append(Places(timeline, n - 1), n - 1)

Result(raised, timeline, trend) == [raised |-> raised, timeline |-> timeline, trend |-> trend]

\* get_ndvi_statistics and _get_biopar_stats_statistical_api, from the answer of
\* the Statistical API to the response
Statistics(fn, data) ==
    LET all_means == NonNull(data, Len(data))
        x == [i \in 1..Len(all_means) |-> i - 1]
    IN  IF data = <<>> \/ all_means = <<>>
        THEN Result("NoDataAvailableError", <<>>, None)
        ELSE Result("none", StatsTimeline(fn, data, Len(data)), <<Trend(x, all_means, 100)>>)

\* get_biopar_timeseries for CCC and CWC, from the windows to the response
Timeseries(fn, data) ==
    LET timeline == WindowTimeline(fn, data)
        xs == Places(timeline, Len(timeline))
        ys == [i \in 1..Len(xs) |-> timeline[xs[i] + 1].mean[1]]
    IN  Result("none", timeline, <<Trend(xs, ys, 10)>>)

\* the upstream answers with the windows `data`
Answer(fn, data) == Calls([fn |-> fn, data |-> data])

\* the function returns its response, or raises
Summarize ==
    Returns(IF input[1].fn = TIMESERIES
            THEN Timeseries(input[1].fn, input[1].data)
            ELSE Statistics(input[1].fn, input[1].data))

\* ---- the status of a mean (classify_ndvi_status, classify_biopar_status) ----
\* A mean is an integer number of hundredths.

NDVI_THRESHOLD_CRITICAL == 0

NDVI_THRESHOLD_HIGH == 30

\* the indicator types, as the callers write them
IndicatorTypes == {"NDVI", "FAPAR", "fapar", "LAI", "FCOVER", "CCC", "CWC"}

\* finite means, inside and outside the nominal range of each indicator, on
\* both sides of each threshold
MeanValues ==
    {-1000000, -100, -1, 0, 5, 9, 10, 19, 20, 24, 25, 29, 30, 40, 44, 45, 50, 59,
     60, 64, 65, 69, 70, 79, 80, 149, 150, 299, 300, 499, 500, 4999, 5000, 9999,
     10000, 19999, 20000, 29999, 30000, 39999, 40000, 59999, 60000, 1000000}

\* a chain that ends in an elif: no branch assigns the status of a value above
\* the last threshold
FirstBelowNoElse(bins, v, otherwise) ==
    IF \E i \in 1..Len(bins) : v < bins[i][1]
    THEN bins[CHOOSE i \in 1..Len(bins) :
                  v < bins[i][1] /\ \A j \in 1..(i - 1) : ~(v < bins[j][1])][2]
    ELSE "UnboundLocalError"

\* if v < t1: s1 elif v < t2: s2 ... else: otherwise
FirstBelow(bins, v, otherwise) ==
    IF \E i \in 1..Len(bins) : v < bins[i][1]
    THEN bins[CHOOSE i \in 1..Len(bins) :
                  v < bins[i][1] /\ \A j \in 1..(i - 1) : ~(v < bins[j][1])][2]
    ELSE otherwise

\* classify_ndvi_status(mean_ndvi)["status"]
classify_ndvi_status(mean_ndvi) ==
    FirstBelow(<< <<NDVI_THRESHOLD_CRITICAL, "water">>, <<20, "bare_soil">>,
                  <<NDVI_THRESHOLD_HIGH, "critical_low">>, <<45, "low">>,
                  <<65, "optimal">> >>, mean_ndvi, "high")

\* the thresholds of very_low, low, moderate and optimal of a BIOPAR type
BioparThresholds(t) ==
    CASE t = "FAPAR" -> <<10, 25, 50, 70>>
      [] t = "LAI" -> <<50, 150, 300, 500>>
      [] t = "FCOVER" -> <<20, 40, 60, 80>>
      [] t = "CCC" -> <<5000, 10000, 20000, 30000>>
      [] t = "CWC" -> <<10000, 20000, 40000, 60000>>

\* classify_biopar_status(biopar_type, mean_value)["status"] of a mean that is
\* not None
classify_biopar_status(biopar_type, mean_value) ==
    LET t == Upper(biopar_type)
    IN  IF t \in {"FAPAR", "LAI", "FCOVER", "CCC", "CWC"}
        THEN LET th == BioparThresholds(t)
             IN  FirstBelow(<< <<th[1], "very_low">>, <<th[2], "low">>,
                               <<th[3], "moderate">>, <<th[4], "optimal">> >>,
                            mean_value, "high")
        ELSE "neutral"

\* a caller asks for the status of the mean of an indicator
Classify(type, mean) == Calls([type |-> type, mean |-> mean])

\* the status returned, or the exception raised
Classified ==
    Returns(IF input[1].type = "NDVI"
            THEN classify_ndvi_status(input[1].mean)
            ELSE classify_biopar_status(input[1].type, input[1].mean))

----------------------------------------------------------------------------
(* The cache monitor (backend/cache_monitor.py): scan_directory and         *)
(* cleanup_old_files walk one cache directory, one system call per step,    *)
(* while the writers and removers of the cache change the directory.  A     *)
(* time is a number of days and a size a number of bytes.                   *)

\* the names of the directory, in the order path.rglob("*") yields them
CacheNames == <<"a.tif", "b.json">>

\* st_mtime of a file
Days == 0..MaxDay

\* st_size of a file: half a megabyte, a megabyte
FileSizes == {524288, 1048576}

FileStats == [mtime : Days, size : FileSizes]

NameSet == {CacheNames[i] : i \in 1..Len(CacheNames)}

EmptyDirectory == [f \in NameSet |-> None]

\* no call of the monitor
NoMonitor ==
    [op |-> "none", dry_run |-> TRUE, cutoff |-> 0, start |-> EmptyDirectory, todo |-> <<>>,
     pc |-> "idle", count |-> 0, size |-> 0, file_size |-> 0, errors |-> 0,
     oldest |-> None, newest |-> None, raised |-> "none"]

MonitorInit == entries = EmptyDirectory /\ mon = NoMonitor

\* the files path.rglob("*") yields: the entries of the directory at the listing
Listing == SelectSeq(CacheNames, LAMBDA f : entries[f] # None)

\* the monitor is at the step pc of its loop
MonitorAt(pc_) == mon.pc = pc_

\* the next file of the loop, or the return
Continue(m) ==
    [m EXCEPT !.todo = Tail(m.todo),
              !.pc = IF Tail(m.todo) = <<>> THEN "done" ELSE "is_file"]

\* a loop that an OSError ends
FailedAborts(m) == [m EXCEPT !.pc = "done", !.raised = "OSError"]

\* except OSError as e: errors.append(...) (cleanup_old_files), logger.warning(...)
\* (scan_directory); the loop goes on
Failed(m) == Continue([m EXCEPT !.errors = m.errors + 1])

\* the file of the step
Current == Head(mon.todo)

\* a flag under which the files are unlinked whatever dry_run is
DeletesAlways(dry_run) == TRUE

\* if not dry_run: file_path.unlink()
Deletes(dry_run) == ~dry_run

\* cleanup_old_files(max_age_days, dry_run): cutoff_time = time.time() -
\* max_age_days * 86400; for file_path in path.rglob("*")
CleanupCall(cutoff, dry_run) ==
    /\ mon.pc \in {"idle", "done"}
    /\ mon' = [NoMonitor EXCEPT !.op = "cleanup", !.dry_run = dry_run, !.cutoff = cutoff,
                                !.start = entries, !.todo = Listing,
                                !.pc = IF Listing = <<>> THEN "done" ELSE "is_file"]
    /\ UNCHANGED entries

\* scan_directory(path, name): for file_path in path.rglob("*")
ScanCall ==
    /\ mon.pc \in {"idle", "done"}
    /\ mon' = [NoMonitor EXCEPT !.op = "scan", !.start = entries, !.todo = Listing,
                                !.pc = IF Listing = <<>> THEN "done" ELSE "is_file"]
    /\ UNCHANGED entries

\* if not file_path.is_file(): continue; scan_directory counts the file
IsFile ==
    /\ MonitorAt("is_file")
    /\ mon' = IF entries[Current] = None
              THEN Continue(mon)
              ELSE IF mon.op = "scan"
                   THEN [mon EXCEPT !.pc = "scan_size", !.count = mon.count + 1]
                   ELSE [mon EXCEPT !.pc = "stat_mtime"]
    /\ UNCHANGED entries

\* mtime = file_path.stat().st_mtime; if mtime < cutoff_time
StatMtime ==
    /\ MonitorAt("stat_mtime")
    /\ mon' = IF entries[Current] = None
              THEN Failed(mon)
              ELSE IF entries[Current][1].mtime < mon.cutoff
                   THEN [mon EXCEPT !.pc = "stat_size"]
                   ELSE Continue(mon)
    /\ UNCHANGED entries

\* deleted_count += 1; deleted_size += file_size
CountDeleted(m) == Continue([m EXCEPT !.count = m.count + 1, !.size = m.size + m.file_size])

\* file_size = file_path.stat().st_size; if not dry_run
StatSize ==
    /\ MonitorAt("stat_size")
    /\ mon' = IF entries[Current] = None
              THEN Failed(mon)
              ELSE LET m == [mon EXCEPT !.file_size = entries[Current][1].size]
                   IN  IF Deletes(mon.dry_run)
                       THEN [m EXCEPT !.pc = "unlink"]
                       ELSE CountDeleted(m)
    /\ UNCHANGED entries

\* file_path.unlink()
Unlink ==
    /\ MonitorAt("unlink")
    /\ IF entries[Current] = None
       THEN mon' = Failed(mon) /\ UNCHANGED entries
       ELSE mon' = CountDeleted(mon) /\ entries' = [entries EXCEPT ![Current] = None]

\* file_size = file_path.stat().st_size; stats.total_size_bytes += file_size
ScanSize ==
    /\ MonitorAt("scan_size")
    /\ mon' = IF entries[Current] = None
              THEN Failed(mon)
              ELSE [mon EXCEPT !.pc = "scan_mtime",
                               !.size = mon.size + entries[Current][1].size]
    /\ UNCHANGED entries

\* mtime = file_path.stat().st_mtime; oldest_mtime, newest_mtime
ScanMtime ==
    /\ MonitorAt("scan_mtime")
    /\ mon' = IF entries[Current] = None
              THEN Failed(mon)
              ELSE LET mtime == entries[Current][1].mtime
                   IN  Continue([mon EXCEPT
                           !.oldest = IF mon.oldest = None \/ mtime < mon.oldest[1]
                                      THEN <<mtime>> ELSE mon.oldest,
                           !.newest = IF mon.newest = None \/ mtime > mon.newest[1]
                                      THEN <<mtime>> ELSE mon.newest])
    /\ UNCHANGED entries

\* round(deleted_size / (1024 * 1024), 2), in hundredths of a megabyte
SizeMb(bytes) ==
    LET q == (bytes * 100) \div (1024 * 1024)
        r == (bytes * 100) % (1024 * 1024)
    IN  IF 2 * r > 1024 * 1024 \/ (2 * r = 1024 * 1024 /\ q % 2 = 1) THEN q + 1 ELSE q

\* the dict cleanup_old_files returns
Report(m) ==
    [dry_run |-> m.dry_run, deleted_files |-> m.count, deleted_size_mb |-> SizeMb(m.size),
     errors |-> m.errors]

\* a writer of the cache creates or replaces the file f
Written(f, st) == entries' = [entries EXCEPT ![f] = <<st>>]

\* a writer or a remover takes the name f away (os.replace of a temporary file,
\* unlink)
Removed(f) == entries[f] # None /\ entries' = [entries EXCEPT ![f] = None]

\* the directory changes between two calls of the monitor
Between(change) == mon.pc \in {"idle", "done"} /\ change /\ mon' = NoMonitor

\* the directory changes during a call of the monitor
During(change) == change /\ UNCHANGED mon

----------------------------------------------------------------------------
(* Calls with a job id: what the caller gets.  The call and what it        *)
(* returned or raised are kept in `input` and `output`.                    *)

Mutators == {"start_job", "update_progress", "complete_job", "fail_job", "cancel_job"}

\* JobProgress.to_dict of a job that no other thread is changing
to_dict(job) == Dict(job, [i \in 1..Len(Fields) |-> job[Fields[i]]])

\* get_job: job = self._jobs.get(job_id); return job.to_dict() if job else None
get_job(id) == IF id \in DOMAIN jobs THEN <<to_dict(jobs[id])>> ELSE None

\* what a mutator gives its caller: `raise ValueError` for a missing id, or
\* the None of a function without a return statement
MutatorOutcome(id) == IF id \notin DOMAIN jobs THEN "ValueError" ELSE "None"

\* the mutator `name` called on id with arguments drawn from the sets of `in`
Mutator(name, in, id) ==
    CASE name = "start_job" -> \E m \in in.message : start_job(id, m)
      [] name = "update_progress" ->
            \E p \in in.pct, s \in in.step, m \in in.message, inc \in in.inc :
               update_progress(id, p, s, m, inc)
      [] name = "complete_job" ->
            \E r \in in.result, m \in in.message : complete_job(id, r, m)
      [] name = "fail_job" -> \E e \in ErrorIn, m \in in.message : fail_job(id, e, m)
      [] name = "cancel_job" -> \E m \in in.message : cancel_job(id, m)

\* a call of a client and what it gets
Answered(name, id, operation, result) ==
    /\ calls < MaxCalls
    /\ calls' = calls + 1
    /\ operation
    /\ History
    /\ input' = <<[op |-> name, id |-> id]>>
    /\ output' = result
    /\ UNCHANGED <<threadVars, cacheVars, fetchVars, keyVars, monitorVars, eventVars>>

\* the clients use two job ids
TwoJobsIn == [LifecycleIn EXCEPT !.ids = {"j1", "j2"}]

----------------------------------------------------------------------------
(* _iter_date_windows, one iteration of its loop per step.  A date is the  *)
(* number of its day; `input` holds the arguments and the locals of the    *)
(* call, `output` what it returned.                                        *)

MaxDate == 3

Dates == 0..MaxDate

\* window_days is any integer the caller passes
WindowDays == -1..MaxDate

\* more iterations than a range of Dates has days
MaxIterations == MaxDate + 2

\* start = strptime(start_date); end = strptime(end_date); cur = start; windows = []
WindowsFrame(start_date, end_date, window_days) ==
    [start |-> start_date, end |-> end_date, window_days |-> window_days,
     cur |-> start_date, windows |-> <<>>]

WindowsCall(start_date, end_date, window_days) ==
    /\ input = None \/ output # None
    /\ input' = <<WindowsFrame(start_date, end_date, window_days)>>
    /\ output' = None

\* w_end = min(end, cur + timedelta(days=window_days - 1))
WindowEnd(f) == Min(f.end, f.cur + (f.window_days - 1))

\* while cur <= end: windows.append((cur, w_end)); cur = w_end + timedelta(days=1)
WindowsIterate ==
    /\ input # None /\ output = None
    /\ LET f == input[1]
       IN  /\ f.cur <= f.end
           /\ Len(f.windows) < MaxIterations
           /\ input' = <<[f EXCEPT !.windows = Append(@, <<f.cur, WindowEnd(f)>>),
                                   !.cur = WindowEnd(f) + 1]>>
    /\ UNCHANGED output

\* the loop is left: return windows
WindowsReturn ==
    /\ input # None /\ output = None
    /\ input[1].cur > input[1].end
    /\ output' = <<input[1].windows>>
    /\ UNCHANGED input

----------------------------------------------------------------------------
(* eonet.load_events and its module-level cache _cache_events.  The events *)
(* that pass the filter are a list upstream determines; the age of the     *)
(* cached payload is below CACHE_TTL_EVENTS until time makes it stale.     *)

MaxEvents == 3

\* events_out for a request of the status: the events upstream has for it
EventsOut == [open |-> <<"e1", "e2", "e3">>, closed |-> <<"e4">>]

Statuses == DOMAIN EventsOut

Limits == 1..(MaxEvents - 1)

Offsets == 0..(MaxEvents - 2)

\* _cache_events = {"ts": 0.0, "data": None, "key": ""}
EventsInit == cache_events = [key |-> "", data |-> None, fresh |-> FALSE]

\* cache_key = f"{start}_{end}_{status}_{bbox}"
EventsCacheKey(status) == status

\* events_out[offset:offset + limit]
Slice(events, offset, limit) == SubSeq(events, offset + 1, Min(Len(events), offset + limit))

\* the payload built from events_out
EventsPayload(events, limit, offset) ==
    [events |-> Slice(events, offset, limit),
     pagination |-> [total |-> Len(events), limit |-> limit, offset |-> offset,
                     returned |-> Len(Slice(events, offset, limit))],
     cached |-> FALSE]

\* the payload returned when the request to EONET fails
EmptyPayload(limit, offset) ==
    [events |-> <<>>,
     pagination |-> [total |-> 0, limit |-> limit, offset |-> offset, returned |-> 0],
     cached |-> FALSE]

\* if _cache_events.get("key") == cache_key and _cache_events.get("data")
\* and age < CACHE_TTL_EVENTS
EventsCacheHit(status) ==
    /\ cache_events.key = EventsCacheKey(status)
    /\ cache_events.data # None
    /\ cache_events.fresh

\* load_events(status=status, limit=limit, offset=offset); ok: EONET answered
load_events(status, limit, offset, ok) ==
    /\ input' = <<[status |-> status, limit |-> limit, offset |-> offset]>>
    /\ IF EventsCacheHit(status)
       THEN /\ output' = <<[cache_events.data[1] EXCEPT !.cached = TRUE]>>
            /\ UNCHANGED cache_events
       ELSE IF ok
            THEN LET payload == EventsPayload(EventsOut[status], limit, offset)
                 IN  /\ cache_events' = [key |-> EventsCacheKey(status),
                                         data |-> <<payload>>, fresh |-> TRUE]
                     /\ output' = <<payload>>
            ELSE /\ output' = <<EmptyPayload(limit, offset)>>
                 /\ UNCHANGED cache_events

\* time passes: the cached payload is CACHE_TTL_EVENTS old
EventsAge ==
    /\ cache_events.fresh
    /\ cache_events' = [cache_events EXCEPT !.fresh = FALSE]
    /\ UNCHANGED <<input, output>>

\* a step of the events service
Listed(step) ==
    /\ step
    /\ UNCHANGED <<trackerVars, calls, historyVars, threadVars, cacheVars, fetchVars, keyVars,
                   monitorVars>>

----------------------------------------------------------------------------
(* The specifications *)

\* a call is counted and the history variables follow it
Counted(operation) ==
    /\ calls < MaxCalls
    /\ calls' = calls + 1
    /\ operation
    /\ History
    /\ UNCHANGED <<threadVars, cacheVars, fetchVars, keyVars, callVars, monitorVars, eventVars>>

\* between two calls the clock may advance
Elapse ==
    Tick /\ UNCHANGED <<calls, historyVars, threadVars, cacheVars, fetchVars, keyVars, callVars, monitorVars, eventVars>>

Init ==
    /\ TrackerInit /\ HistoryInit /\ calls = 0 /\ ThreadsInit /\ CacheInit /\ FetchInit
    /\ KeysInit /\ CallInit /\ MonitorInit /\ EventsInit

\* a step of a client of the tracker whose arguments are drawn from the sets of `in`
Step(in) ==
    \/ \E id \in in.ids, ty \in JobTypes, ts \in in.total :
          Counted(create_job(id, ty, ts))
    \/ \E id \in in.ids, m \in in.message :
          Counted(start_job(id, m))
    \/ \E id \in in.ids, p \in in.pct, s \in in.step, m \in in.message, inc \in in.inc :
          Counted(update_progress(id, p, s, m, inc))
    \/ \E id \in in.ids, r \in in.result, m \in in.message :
          Counted(complete_job(id, r, m))
    \/ \E id \in in.ids, e \in ErrorIn, m \in in.message :
          Counted(fail_job(id, e, m))
    \/ \E id \in in.ids, m \in in.message :
          Counted(cancel_job(id, m))
    \/ \E h \in HoursIn :
          Counted(clear_completed(h))
    \/ Elapse

Next == Step(LifecycleIn)

Spec == Init /\ [][Next]_vars

NextProgress == Step(ProgressIn)

SpecProgress == Init /\ [][NextProgress]_vars

\* the scenario of creating jobs under new ids, running and completing them
NextHistory ==
    \/ \E id \in JobIds \ DOMAIN jobs, ty \in JobTypes, ts \in LifecycleIn.total :
          Counted(create_job(id, ty, ts))
    \/ \E id \in DOMAIN jobs, m \in LifecycleIn.message :
          jobs[id].status = PENDING /\ Counted(start_job(id, m))
    \/ \E id \in DOMAIN jobs, p \in LifecycleIn.pct :
          jobs[id].status = RUNNING /\ Counted(update_progress(id, p, None, None, FALSE))
    \/ \E id \in DOMAIN jobs, r \in LifecycleIn.result, m \in LifecycleIn.message :
          jobs[id].status \notin Terminal /\ Counted(complete_job(id, r, m))
    \/ Elapse

SpecHistory == Init /\ [][NextHistory]_vars

\* a step of one of the threads
Threaded(step) ==
    step /\ UNCHANGED <<calls, historyVars, cacheVars, fetchVars, keyVars, callVars, monitorVars, eventVars>>

NextThreads ==
    \/ \E t \in Threads : Threaded(Acquire(t))
    \/ \E t \in Threads : Threaded(Release(t))
    \/ \E t \in Threads : Threaded(Lookup(t))
    \/ \E t \in Threads : Threaded(Assign(t))
    \/ \E t \in Threads : Threaded(Count(t))
    \/ \E t \in Threads : Threaded(Cleanup(t))
    \/ \E t \in Threads : Threaded(Create(t))
    \/ \E t \in Threads : Threaded(Get(t))
    \/ \E t \in Readers : Threaded(ToDict(t))
    \/ \E t \in Readers : Threaded(Return(t))
    \/ Elapse

SpecThreads == Init /\ [][NextThreads]_vars

\* a step of one of the processes that use the cache
Cached(step) ==
    step /\ UNCHANGED <<trackerVars, calls, historyVars, threadVars, fetchVars, keyVars, callVars, monitorVars, eventVars>>

NextCache ==
    \/ \E p \in Procs, use_lock \in BOOLEAN : Cached(CallWrite(p, use_lock))
    \/ \E p \in Procs, use_lock \in BOOLEAN : Cached(CallRead(p, use_lock))
    \/ \E p \in Procs : Cached(ReadExists(p))
    \/ \E p \in Procs : Cached(LockOpen(p))
    \/ \E p \in Procs : Cached(LockAcquire(p))
    \/ \E p \in Procs : Cached(LockSleep(p))
    \/ \E p \in Procs : Cached(LockTimeout(p))
    \/ \E p \in Procs : Cached(LockUnlock(p))
    \/ \E p \in Procs : Cached(LockExists(p))
    \/ \E p \in Procs : Cached(LockUnlink(p))
    \/ \E p \in Procs : Cached(MakeTemp(p))
    \/ \E p \in Procs : Cached(WriteChunk(p))
    \/ \E p \in Procs : Cached(Fsync(p))
    \/ \E p \in Procs : Cached(Rename(p))
    \/ \E p \in Procs : Cached(WriteError(p))
    \/ \E p \in Procs : Cached(ReadOpen(p))
    \/ \E p \in Procs : Cached(ReadAll(p))
    \/ \E p \in Procs : Cached(Kill(p))

SpecCache == Init /\ [][NextCache]_vars

\* a step of file_lock itself: its open, its wait loop and its finally block
LockStep(p) ==
    \/ LockOpen(p)
    \/ LockAcquire(p)
    \/ LockSleep(p)
    \/ LockTimeout(p)
    \/ LockUnlock(p)
    \/ LockExists(p)
    \/ LockUnlink(p)

\* a process inside file_lock keeps running; the code under the lock, and a
\* holder of the lock, may take any time
\* writers that take the lock for every call
NextLock ==
    \/ \E p \in Procs : Cached(CallWrite(p, TRUE))
    \/ \E p \in Procs : Cached(LockOpen(p))
    \/ \E p \in Procs : Cached(LockAcquire(p))
    \/ \E p \in Procs : Cached(LockSleep(p))
    \/ \E p \in Procs : Cached(LockTimeout(p))
    \/ \E p \in Procs : Cached(LockUnlock(p))
    \/ \E p \in Procs : Cached(LockExists(p))
    \/ \E p \in Procs : Cached(LockUnlink(p))
    \/ \E p \in Procs : Cached(MakeTemp(p))
    \/ \E p \in Procs : Cached(WriteChunk(p))
    \/ \E p \in Procs : Cached(Fsync(p))
    \/ \E p \in Procs : Cached(Rename(p))
    \/ \E p \in Procs : Cached(WriteError(p))
    \/ \E p \in Procs : Cached(Kill(p))

SpecLock ==
    Init /\ [][NextLock]_vars /\ \A p \in Procs : WF_vars(Cached(LockStep(p)))

\* a step of a process that serves fetches
Fetched(step) ==
    step /\ UNCHANGED <<trackerVars, calls, historyVars, threadVars, cacheVars, keyVars, callVars, monitorVars, eventVars>>

\* one process serves the fetches of one request again and again, through a
\* gateway or through the wrapper around it
NextFetch ==
    \E p \in {"p1"} :
        \/ \E fn \in Gateways, wrapper, force \in BOOLEAN :
              /\ req[p].fn \in {"none", fn}
              /\ Fetched(FetchCall(p, fn, wrapper, force))
        \/ Fetched(WrapperCheck(p))
        \/ Fetched(CacheCheck(p))
        \/ \E ok \in BOOLEAN : Fetched(GetToken(p, ok))
        \/ \E r \in Responses, tokenOk \in BOOLEAN : Fetched(Post(p, r, tokenOk))
        \/ Fetched(WriteCache(p))
        \/ Fetched(WriteCacheRaises(p))
        \/ Fetched(WriteCleanup(p))
        \/ Fetched(MetaOpen(p))
        \/ Fetched(MetaDump(p))
        \/ Fetched(MetaError(p))
        \/ \E ok \in BOOLEAN : Fetched(Connect(p, ok))
        \/ \E error \in {"NoDataAvailableError", "OpenEOError"} :
              Fetched(DownloadRefused(p, error))
        \/ Fetched(DownloadOpen(p))
        \/ Fetched(DownloadChunk(p))
        \/ Fetched(DownloadError(p))
        \/ Fetched(CopyOpen(p))
        \/ Fetched(CopyChunk(p))
        \/ Fetched(CopyDone(p))
        \/ Fetched(CopyError(p))
        \/ Fetched(FetchKill(p))
        \/ \E f \in Targets(req[p]) \cap Files : Fetched(Expire(f))

SpecFetch == Init /\ [][NextFetch]_vars

\* two processes serve requests for the same NDVI raster and NDVI statistics
NextRace ==
    \E p \in Procs :
        \/ Fetched(FetchCall(p, NDVI_SH, FALSE, FALSE))
        \/ Fetched(CacheCheck(p))
        \/ \E ok \in BOOLEAN : Fetched(GetToken(p, ok))
        \/ \E r \in {"200", "503"} : Fetched(Post(p, r, TRUE))
        \/ Fetched(WriteCache(p))
        \/ Fetched(WriteCacheRaises(p))
        \/ Fetched(WriteCleanup(p))
        \/ Fetched(MetaOpen(p))
        \/ Fetched(MetaDump(p))
        \/ Fetched(MetaError(p))
        \/ Fetched(StatsCall(p))
        \/ Fetched(StatsCheck(p))
        \/ Fetched(StatsLoad(p))
        \/ \E error \in {"none", "NoDataAvailableError"} : Fetched(StatsApi(p, error))
        \/ Fetched(StatsOpen(p))
        \/ Fetched(StatsDump(p))
        \/ Fetched(StatsError(p))

SpecRace == Init /\ [][NextRace]_vars

\* a step of the derivation of cache keys
Keyed(step) ==
    step /\ UNCHANGED <<trackerVars, calls, historyVars, threadVars, cacheVars, fetchVars, callVars, monitorVars, eventVars>>

NextKeys ==
    \/ \E s \in Sides, change \in Changes \cup {<<"none", 0>>} : Keyed(KeyRequest(s, change))
    \/ \E fn \in KeyFunctions : Keyed(DeriveKey(fn))

SpecKeys == Init /\ [][NextKeys]_vars

\* ---- the functions that keep no state ----

Applied(step) ==
    /\ step
    /\ UNCHANGED <<trackerVars, calls, historyVars, threadVars, cacheVars, fetchVars, keyVars,
                   monitorVars, eventVars>>

NextClassify ==
    \/ \E fn \in Readers400, body \in Bodies : Applied(Answer400(fn, body))
    \/ Applied(Raise400)

SpecClassify == Init /\ [][NextClassify]_vars

NextRoutes ==
    \/ \E endpoint \in Endpoints :
          \E error \in Raised(endpoint) : Applied(Fails(endpoint, error))
    \/ Applied(Respond)

SpecRoutes == Init /\ [][NextRoutes]_vars

NextResolution ==
    \/ \E fn \in Selectors, side \in Sides001, lat_mid \in Latitudes, target_mpp \in TargetMpp :
          Applied(Select(fn, side, lat_mid, target_mpp))
    \/ Applied(Selected)

SpecResolution == Init /\ [][NextResolution]_vars

\* a period has one window at least
NextTimeline ==
    \/ \E fn \in Summaries, data \in Answers :
          /\ fn = TIMESERIES => data # <<>>
          /\ Applied(Answer(fn, data))
    \/ Applied(Summarize)

SpecTimeline == Init /\ [][NextTimeline]_vars

NextStatus ==
    \/ \E type \in IndicatorTypes, mean \in MeanValues : Applied(Classify(type, mean))
    \/ Applied(Classified)

SpecStatus == Init /\ [][NextStatus]_vars

\* ---- the cache monitor ----

Monitored(step) ==
    /\ step
    /\ UNCHANGED <<trackerVars, calls, historyVars, threadVars, cacheVars, fetchVars, keyVars,
                   callVars, eventVars>>

MonitorStep ==
    \/ \E cutoff \in 0..(MaxDay + 1), dry_run \in BOOLEAN :
          Monitored(CleanupCall(cutoff, dry_run))
    \/ Monitored(ScanCall)
    \/ Monitored(IsFile)
    \/ Monitored(StatMtime)
    \/ Monitored(StatSize)
    \/ Monitored(Unlink)
    \/ Monitored(ScanSize)
    \/ Monitored(ScanMtime)

\* the monitor alone: the directory changes between its calls only
NextCleanup ==
    \/ MonitorStep
    \/ \E f \in NameSet, st \in FileStats : Monitored(Between(Written(f, st)))
    \/ \E f \in NameSet : Monitored(Between(Removed(f)))

SpecCleanup == Init /\ [][NextCleanup]_vars

\* the monitor beside the writers and removers of the cache; the files written
\* during a call are of one size
NextMonitor ==
    \/ MonitorStep
    \/ \E f \in NameSet, st \in {x \in FileStats : x.size = 1048576} :
          Monitored(During(Written(f, st)))
    \/ \E f \in NameSet : Monitored(During(Removed(f)))

SpecMonitor == Init /\ [][NextMonitor]_vars

\* clients call the tracker with ids that are in it and ids that are not
NextIds ==
    \/ \E id \in TwoJobsIn.ids, ty \in JobTypes, ts \in TwoJobsIn.total :
          Answered("create_job", id, create_job(id, ty, ts), <<"JobProgress">>)
    \/ \E name \in Mutators, id \in TwoJobsIn.ids :
          Answered(name, id, Mutator(name, TwoJobsIn, id), <<MutatorOutcome(id)>>)
    \/ \E id \in TwoJobsIn.ids :
          Answered("get_job", id, UNCHANGED trackerVars, get_job(id))

SpecIds == Init /\ [][NextIds]_vars

\* _iter_date_windows is called on a range of dates and runs to its return
NextWindows ==
    \/ \E start_date \in Dates, end_date \in Dates, window_days \in WindowDays :
          /\ start_date <= end_date
          /\ Applied(WindowsCall(start_date, end_date, window_days))
    \/ Applied(WindowsIterate)
    \/ Applied(WindowsReturn)

SpecWindows == Init /\ [][NextWindows]_vars /\ WF_vars(NextWindows)

\* clients page through the events of a status
NextEvents ==
    \/ \E status \in Statuses, limit \in Limits, offset \in Offsets, ok \in BOOLEAN :
          Listed(load_events(status, limit, offset, ok))
    \/ Listed(EventsAge)

SpecEvents == Init /\ [][NextEvents]_vars

----------------------------------------------------------------------------
(* Properties of the job tracker *)

\* C1: once a job is completed, failed or cancelled, no call of start_job,
\* update_progress, complete_job, fail_job or cancel_job changes its status.
C1_TerminalStatusIsFinal ==
    [][\A id \in DOMAIN jobs :
          (jobs[id].status \in Terminal /\ MutatorCall(LifecycleIn, id)
             /\ id \in DOMAIN jobs')
          => jobs'[id].status = jobs[id].status]_vars

\* C2: update_progress on a job in a terminal state leaves progress_pct,
\* current_step, message and completed_steps as they were.
C2_UpdateOnTerminalIsNoOp ==
    [][\A id \in DOMAIN jobs :
          (/\ jobs[id].status \in Terminal
           /\ \E p \in PctIn, s \in StepIn, m \in MessageIn, inc \in BOOLEAN :
                 update_progress(id, p, s, m, inc))
          => /\ id \in DOMAIN jobs'
             /\ jobs'[id].progress_pct = jobs[id].progress_pct
             /\ jobs'[id].current_step = jobs[id].current_step
             /\ jobs'[id].message = jobs[id].message
             /\ jobs'[id].completed_steps = jobs[id].completed_steps]_vars

\* C3: create_job with an id that is already in the tracker leaves the
\* existing job record unchanged.
C3_CreateExistingKeepsRecord ==
    [][\A id \in DOMAIN jobs :
          (\E ty \in JobTypes, ts \in LifecycleIn.total : create_job(id, ty, ts))
          => jobs' = jobs]_vars

\* a call of complete_job, fail_job or cancel_job on a job of the tracker
TerminalCall(in, id) ==
    /\ id \in DOMAIN jobs
    /\ \/ \E r \in in.result, m \in in.message : complete_job(id, r, m)
       \/ \E e \in ErrorIn, m \in in.message : fail_job(id, e, m)
       \/ \E m \in in.message : cancel_job(id, m)

\* C4: after complete_job, fail_job or cancel_job returns, the tracker holds
\* at most max_history jobs in a terminal state.
C4_HistoryCapAfterTerminalCall ==
    [][(\E id \in JobIds : TerminalCall(LifecycleIn, id))
          => Cardinality(Finished(jobs')) <= MaxHistory]_vars

\* every job created so far is completed and more than max_history were created
AllCompleted ==
    /\ nCreated > MaxHistory
    /\ \A id \in DOMAIN jobs : jobs[id].status = COMPLETED

\* C5: after creating more than max_history jobs and completing all of them,
\* exactly max_history jobs remain, and none of them was completed before a
\* job that was evicted.
C5_KeepsMostRecentlyCompleted ==
    AllCompleted =>
        /\ Cardinality(DOMAIN jobs) = MaxHistory
        /\ \A id \in DOMAIN jobs : SortKey(jobs[id]) >= evictedMax

C5_Witness ==
    /\ AllCompleted
    /\ evictedMax >= 0
    /\ \E id \in DOMAIN jobs : SortKey(jobs[id]) > evictedMax

\* C6: a pending or running job stays in the tracker through every call that
\* does not finish that very job: neither the history eviction of another
\* job's complete_job or fail_job nor clear_completed removes it.
C6_ActiveJobsAreKept ==
    [][\A id \in DOMAIN jobs :
          (jobs[id].status \notin Terminal /\ id \notin DOMAIN jobs')
          => TerminalCall(LifecycleIn, id)]_vars

C6_Witness ==
    /\ evictedMax >= 0
    /\ \E id \in DOMAIN jobs :
          /\ jobs[id].status \in {PENDING, RUNNING}
          /\ jobs[id].created_at <= evictedMax

\* some thread is between two assignments of a mutator
InMutation(t) == \E label \in Assignments \cup {"complete.count", "complete.cleanup", "create"} : At(t, label)

\* C8: the mutations are serialized by the lock, and every dictionary a reader
\* obtained (get_job, or to_dict on the object create_job returned) is a record
\* the job had between two operations.
C8_ReadersSeeWholeRecords ==
    /\ \A t, u \in Threads : (InMutation(t) /\ InMutation(u)) => t = u
    /\ \A t \in Readers :
          seen[t] # None => seen[t][1] \in committed

\* C7: the progress_pct of every job lies in [0, 100].
C7_ProgressInRange ==
    \A id \in DOMAIN jobs :
        jobs[id].progress_pct >= 0 /\ jobs[id].progress_pct <= 100

----------------------------------------------------------------------------
(* Properties of the atomic cache store *)

\* C9: whatever step a write is interrupted at, the file at cache_path is
\* absent or holds a complete content, and safe_cache_read returns nothing
\* or a complete content.
C9_NoPartialContent ==
    /\ cache_path # None => Complete(cache_path[1])
    /\ \A p \in Procs : got[p] # None => Complete(got[p][1])

C9_Witness ==
    /\ orphan # None /\ ~Complete(orphan[1])
    /\ cache_path # None
    /\ \E p \in Procs : got[p] # None /\ tmp[p] # None /\ ~Complete(tmp[p][1])

\* the process is inside the section guarded by file_lock(lock_path)
InSection(p) ==
    call[p].use_lock /\ cpc[p] \in {"w_mktemp", "w_write", "w_rename", "r_open", "r_read"}

\* C10: at most one process at a time is inside the section guarded by
\* file_lock on the lock file of the cache path.
C10_MutualExclusion ==
    \A p, q \in Procs : (InSection(p) /\ InSection(q)) => p = q

\* C11: a process that enters file_lock does not wait forever: it gets the
\* lock and runs the guarded section, or the TimeoutError takes it through
\* the finally block back to its caller.
C11_LockWaitEnds ==
    \A p \in Procs : (cpc[p] = "lock_open") ~> (InSection(p) \/ cpc[p] = "idle")

C11_Witness ==
    \E p, q \in Procs :
        /\ cpc[p] = "lock_unlock" /\ ~locked[p]
        /\ q # p /\ InSection(q) /\ locked[q]

----------------------------------------------------------------------------
(* Properties of the gateways *)

\* the ways a fetch fails
Failures ==
    {"AuthenticationError", "NoDataAvailableError", "SentinelHubError",
     "OpenEOError", "OSError", "killed"}

\* the file is absent or holds a complete artifact
Intact(file) == file = None \/ Complete(file[1])

\* C12: after a fetch has failed, each cache path it writes to is absent or
\* holds a complete artifact.
C12_FailedFetchLeavesIntact ==
    \A p \in Procs :
        (fpc[p] = "idle" /\ outcome[p] \in Failures) =>
            \A f \in Targets(req[p]) : Intact(disk[f])

\* C13: a process that is about to read the statistics JSON from the cache
\* directory finds a file that is written in full.
C13_ReadersFindWholeFiles ==
    \A p \in Procs : fpc[p] = "stats_load" => Intact(disk[Json(NDVI)])

\* C14: when two requests for the same raster have both missed the cache,
\* both fetched it upstream and both finished, the cache path holds the
\* complete content written by one of them.
C14_LastWriterWins ==
    (\A p \in Procs : fpc[p] = "idle" /\ req[p].fn = NDVI_SH /\ http[p].last = "200") =>
        /\ disk[Tif(NDVI_SH)] # None
        /\ Complete(disk[Tif(NDVI_SH)][1])

\* C19: once upstream has answered 400 the fetch is over: no request follows,
\* and the fetch has failed with a no-data or a validation error.
C19_BadRequestIsFinal ==
    \A p \in Procs :
        http[p].last \in {"400", "400 no data"} =>
            /\ fpc[p] = "idle"
            /\ outcome[p] \in {"NoDataAvailableError", "SentinelHubError"}

C19_Witness ==
    \E p \in Procs :
        /\ http[p].last = "400 no data" /\ outcome[p] = "NoDataAvailableError"
        /\ http[p].attempt = 1

\* C20: a fetch that fails on a 401 has refreshed the token for a 401 once,
\* and only once, and has asked again.
C20_OneRefreshOn401 ==
    \A p \in Procs :
        (fpc[p] = "idle" /\ http[p].last = "401" /\ outcome[p] = "AuthenticationError") =>
            http[p].refreshed = 1

\* the process p takes the step that checks the cache
CheckStep(p) ==
    /\ fpc[p] \in {"wrapper_check", "check"}
    /\ fpc'[p] # fpc[p]
    /\ outcome'[p] # "killed"

\* the file the check looks for
Checked(p) == IF fpc[p] = "wrapper_check" THEN Tif(BIOPAR) ELSE Tif(req[p].fn)

\* C18: the cache check of a fetch leaves the cache files as they are, and
\* with an entry that is older than the TTL it goes on to fetch, as on a miss.
C18_ExpiredEntryIsMiss ==
    [][\A p \in Procs :
          CheckStep(p) =>
              /\ disk' = disk /\ aged' = aged
              /\ Checked(p) \in aged =>
                    fpc'[p] \in {"check", "token", "connect"}]_vars

----------------------------------------------------------------------------
(* Properties of the cache keys *)

\* C15: two requests of one function that ask upstream for different things
\* get different cache names.
C15_DifferentRequestsDifferentKeys ==
    \A fn \in {NDVI_SH, BIOPAR_SH, BIOPAR} :
        (key["a"] # None /\ key["a"][1].prefix = fn
            /\ Requested(fn, args["a"]) # Requested(fn, args["b"]))
        => key["a"] # key["b"]

\* the arguments are the same but for the order of the keys of the polygon
\* and for the digits of the coordinates after the sixth decimal
Equivalent(r, q) ==
    /\ r.x \div 10 = q.x \div 10
    /\ \A f \in DOMAIN r \ {"x", "order"} : r[f] = q[f]

\* C16: two requests with the same arguments, whatever the order of the keys
\* of the input and whatever the digits of the coordinates after the sixth
\* decimal, get the same cache name.
C16_EquivalentRequestsSameKey ==
    \A fn \in {NDVI_SH, BIOPAR} :
        (key["a"] # None /\ key["a"][1].prefix = fn /\ Equivalent(args["a"], args["b"]))
        => key["a"] = key["b"]

\* C17: a change of the version of the processing algorithm changes the cache
\* name of every key function, raster or statistics.
C17_VersionChangesEveryKey ==
    (key["a"] # None /\ args["a"].version # args["b"].version) => key["a"] # key["b"]

----------------------------------------------------------------------------
(* Properties of the retry loop *)

Retrying(p) == fpc[p] = "post" /\ http[p].attempt > 0

\* C21: after a 429 that carries Retry-After: N the gateway sleeps N seconds
\* before the next attempt
C21_RetryAfterIsHonoured ==
    \A p \in Procs :
        Retrying(p) /\ http[p].last = "429 Retry-After"
            => http[p].delay = Millis(RetryAfter)

\* C22: the sleep before the retry that follows the 0-based attempt k is
\* base_delay * factor^k after a 429 without Retry-After, a 502/503/504, a
\* timeout and a connection error, in the NDVI and in the BIOPAR gateway
C22_ExponentialBackoff ==
    \A p \in Procs :
        Retrying(p) /\ http[p].last \in {"429", "503", "Timeout", "ConnectionError"}
            => http[p].delay =
                   Millis(retry_delay) * RETRY_BACKOFF_FACTOR ^ (http[p].attempt - 1)

\* C23: one fetch makes at most max_retries + 1 processing requests: while the
\* loop runs every request made has used one attempt of the max_retries + 1,
\* and the fetch that left the loop returned or raised within that budget
C23_BoundedRequests ==
    \A p \in Procs :
        /\ http[p].posts <= max_retries + 1
        /\ fpc[p] = "post" => http[p].posts = http[p].attempt
        /\ fpc[p] = "post" => http[p].attempt <= max_retries

C23_Witness ==
    \E p \in Procs :
        /\ fpc[p] = "idle"
        /\ http[p].posts = max_retries + 1
        /\ http[p].last = "503"
        /\ outcome[p] = "SentinelHubError"

\* C24: a 200 that is too small or is not a TIFF is retried up to the budget and
\* then surfaced as no data, in both cases
C24_CorruptIsNoData ==
    \A p \in Procs :
        /\ fpc[p] = "idle"
        /\ req[p].fn \in SentinelHub
        /\ http[p].last \in {"small", "not TIFF"}
        /\ outcome[p] \in Failures \ {"killed"}
        => /\ http[p].posts = max_retries + 1
           /\ outcome[p] = "NoDataAvailableError"

\* C25: a failure that is not a 429, a 502/503/504, a timeout, a connection error
\* or a corrupt or undersized response, such as a 500, ends the fetch at once
C25_OtherFailuresAreFinal ==
    \A p \in Procs :
        req[p].fn \in SentinelHub /\ http[p].last \in {"400 no data", "400", "500"}
            => fpc[p] # "post"

----------------------------------------------------------------------------
(* Properties of the error classification *)

\* the phrases that stand for no data
NoDataIndicators == {"no data", "no scenes", "no products", "not found", "unavailable"}

\* C26: a 400 whose body contains one of the phrases no data, no scenes, no
\* products, not found, unavailable is NoData and every other 400 is Validation,
\* in the raster fetches and in the statistics alike
C26_OnePhraseSet ==
    output # None =>
        output[1] = IF input[1].body \cap NoDataIndicators # {}
                    THEN "NoDataAvailableError" ELSE "SentinelHubError"

\* C27: every NoData outcome is answered with the status 404, whichever function
\* and endpoint produced it, and so never with a status of the internal or
\* upstream errors
C27_NoDataIs404 ==
    output # None /\ input[1].error.class \in NoDataClasses => output[1] = 404

----------------------------------------------------------------------------
(* Properties of the resolution selectors *)

\* maxMetersPerPixel of the selector
MaxMppOf(fn) == IF fn = NDVI THEN S2L2A_MAX_MPP ELSE BIOPAR_MAX_MPP

\* C28: for a square bbox of 0.001 to 20 degrees the selector returns a width
\* and a height between MIN_PIXELS and MAX_PIXELS whose metres per pixel, the
\* extent over the pixels in each dimension, are at most the maximum of the
\* selector, with the NDVI and with the BIOPAR limits
C28_ResolutionWithinLimits ==
    output # None =>
        LET size == input[1].size
            px == output[1]
            max_mpp == MaxMppOf(input[1].fn)
        IN  /\ MIN_PIXELS <= px.width /\ px.width <= MAX_PIXELS
            /\ MIN_PIXELS <= px.height /\ px.height <= MAX_PIXELS
            /\ size.width_m <= Metres(max_mpp) * px.width
            /\ size.height_m <= Metres(max_mpp) * px.height

----------------------------------------------------------------------------
(* Properties of the timelines and trends *)

\* the number of windows of the call whose mean is not None
Observations == Len(NonNull(input[1].data, Len(input[1].data)))

C30_OneEntryPerWindow ==
    output # None /\ output[1].raised = "none" =>
        LET data == input[1].data
            timeline == output[1].timeline
        IN  /\ Len(timeline) = Len(data)
            /\ \A i \in 1..Len(timeline) :
                  /\ timeline[i].date = i
                  /\ (timeline[i].mean = None) = (data[i] = None)

----------------------------------------------------------------------------
(* Properties of the status of a mean *)

\* the status bins of an indicator
StatusBins(type) ==
    IF type = "NDVI"
    THEN {"water", "bare_soil", "critical_low", "low", "optimal", "high"}
    ELSE {"very_low", "low", "moderate", "optimal", "high"}

\* C31: for every indicator type and every finite mean, inside or outside the
\* nominal range, the classification returns one status bin of the indicator,
\* which is none of no_data, neutral and default, and raises nothing
C31_EveryMeanHasOneBin ==
    output # None => output[1] \in StatusBins(input[1].type)

C31_Witness ==
    /\ output # None
    /\ input[1].type = "CWC"
    /\ input[1].mean = 1000000
    /\ output[1] = "high"

----------------------------------------------------------------------------
(* Properties of the cache monitor *)

\* the files of the directory `dir` with mtime < cutoff
OldFiles(dir, cutoff) == {f \in NameSet : dir[f] # None /\ dir[f][1].mtime < cutoff}

RECURSIVE TotalSize(_, _)
\* the sum of the sizes of the files `names` of the directory `dir`
TotalSize(dir, names) ==
    IF names = {} THEN 0
    ELSE LET f == CHOOSE x \in names : TRUE
         IN  dir[f][1].size + TotalSize(dir, names \ {f})

C33_MonitorNeverFails ==
    /\ mon.raised = "none"
    /\ mon.pc = "done" => mon.todo = <<>>

C33_Witness ==
    /\ mon.pc = "done"
    /\ mon.errors = 1
    /\ mon.count = 1
    /\ entries[CacheNames[1]] = None

(***************************************************************************)
(* Properties of a failed cache write                                      *)
(***************************************************************************)

\* the step in which the handler of a failed cache write of p ends
FailedWriteEnds(p) == fpc[p] = "cleanup" /\ fpc'[p] # "cleanup"

\* C34: a cache write that fails in one request never deletes a complete
\* entry that is at the final path, the entry a concurrent request for the
\* same key has just written included.
C34_FailedWriteKeepsEntry ==
    [][\A p \in Procs :
          LET f == Tif(req[p].fn)
          IN  (FailedWriteEnds(p) /\ disk[f] # None /\ Complete(disk[f][1])) =>
                  disk'[f] = disk[f]]_vars

(***************************************************************************)
(* Properties of the timestamps and of unknown job ids                     *)
(***************************************************************************)

\* C35: in every reachable state a job has completed_at set if and only if
\* its status is completed, failed or cancelled.
C35_CompletedAtIffTerminal ==
    \A id \in DOMAIN jobs :
        jobs[id].completed_at # None <=> jobs[id].status \in Terminal

\* the call made by the step is `name` on an id that is not in the tracker
UnknownId(names) ==
    /\ calls' = calls + 1
    /\ input'[1].op \in names
    /\ input'[1].id \notin DOMAIN jobs

\* C36: start_job, update_progress, complete_job, fail_job and cancel_job on
\* an id that is not in the tracker raise an error and leave the job map and
\* the two counters as they were; get_job on such an id returns no job.
C36_UnknownIdChangesNothing ==
    [][/\ UnknownId(Mutators) =>
             /\ output' = <<"ValueError">>
             /\ UNCHANGED <<jobs, jobOrder, completed_count, failed_count>>
       /\ UnknownId({"get_job"}) =>
             /\ output' = None
             /\ UNCHANGED <<jobs, jobOrder, completed_count, failed_count>>]_vars

\* fail_job on an unknown id has raised while the tracker holds another job
C36_Witness ==
    /\ input # None
    /\ input[1].op = "fail_job"
    /\ input[1].id \notin DOMAIN jobs
    /\ output = <<"ValueError">>
    /\ DOMAIN jobs # {}
    /\ failed_count = 0

(***************************************************************************)
(* Properties of a forced fetch                                            *)
(***************************************************************************)

\* the step in which the gateway called by the wrapper returns the file of
\* its cache without a request upstream
GatewayCacheHit(p) == fpc[p] = "check" /\ fpc'[p] = "copy_open"

\* C37: fetch_biopar_geotiff called with force=True always fetches upstream,
\* for every indicator type, even when the gateway cache holds an entry for
\* the request: the gateway never answers it from its cache.
C37_ForceFetchesUpstream ==
    [][\A p \in Procs :
          (req[p].wrapper /\ req[p].force) => ~GatewayCacheHit(p)]_vars

(***************************************************************************)
(* Properties of the date windows                                          *)
(***************************************************************************)

\* the windows are consecutive and in order, start at `start`, end at `end`,
\* and each has from one to window_days days
CoversExactly(f, windows) ==
    /\ windows # <<>>
    /\ windows[1][1] = f.start
    /\ windows[Len(windows)][2] = f.end
    /\ \A i \in 1..Len(windows) :
          /\ windows[i][1] <= windows[i][2]
          /\ windows[i][2] - windows[i][1] + 1 <= f.window_days
          /\ i > 1 => windows[i][1] = windows[i - 1][2] + 1

\* an iteration of the loop of the call in progress
Iterates ==
    /\ input # None /\ input' # None /\ output = None
    /\ Len(input'[1].windows) = Len(input[1].windows) + 1

\* C38: for start_date <= end_date and any integer window_days,
\* _iter_date_windows terminates (every iteration of `while cur <= end`
\* moves cur forward, and the call reaches its return), and the windows it
\* returns are consecutive, do not overlap, are in chronological order,
\* cover exactly [start_date, end_date] and are at most window_days days
\* long each.
C38_WindowsTerminateAndCover ==
    /\ [](input # None /\ output # None => CoversExactly(input[1], output[1]))
    /\ [][Iterates => input'[1].cur > input[1].cur]_vars
    /\ (input # None /\ output = None) ~> (output # None)

(***************************************************************************)
(* Properties of the cached events                                         *)
(***************************************************************************)

\* C39: load_events never returns a cached payload to a request whose limit
\* or offset differs from those of the request that populated the cache:
\* the pagination metadata it returns are those of the caller, and the page
\* has at most the caller's limit of events.
C39_PageIsTheCallers ==
    (input # None /\ output # None) =>
        /\ output[1].pagination.limit = input[1].limit
        /\ output[1].pagination.offset = input[1].offset
        /\ Len(output[1].events) <= input[1].limit

====
